---- MODULE Spec2Model ----
(***************************************************************************)
(* State-machine model of the manim-generator refinement workflow:         *)
(*   main()                      src/src/manim_generator/main.py           *)
(*   ManimWorkflow               src/src/manim_generator/workflow.py       *)
(*   run_manim_multiscene        src/src/manim_generator/utils/rendering.py*)
(*   get_*completion_with_retry  src/src/manim_generator/utils/llm.py      *)
(*   get_response_with_status    src/src/manim_generator/console.py        *)
(*   parse_code_block, extract_scene_class_names   utils/parsing.py        *)
(* The program is single threaded; one action is one step of that thread.  *)
(* The upstream model, the manim subprocess and the file system are the    *)
(* environment, and their answers are chosen with \E from small sets.      *)
(***************************************************************************)
EXTENDS Integers, Sequences, FiniteSets, TLC

\* ---------------------------------------------------------------- bounds
\* largest configured review_cycles explored
MaxCycles == 2
\* longest list of units handed to calculate_scene_success_rate
MaxUnits == 4
\* largest number of frames of a video, and largest frame_count requested
MaxLength == 5
MaxCount == 4
\* largest max_frames handed to the highest_density mode, and the number of
\* pixels of a frame (its count of bright pixels is 0..MaxDensity)
MaxSamples == 3
MaxDensity == 2
\* largest token count the upstream reports to _build_usage_info
MaxTokens == 2
\* largest number of chunks the upstream sends in one streaming attempt
MaxChunks == 2
\* most class declarations of a candidate handed to the runner on its own,
\* and the deepest nesting of a declaration in its syntax tree
MaxDecls == 3
MaxDepth == 2

\* ------------------------------------------------------ program constants
\* default of the max_retries parameter of both retry functions
max_retries == 5
\* default of --success-threshold, compared with the success rate
success_threshold == 100
\* default of the max_frames parameter of extract_frames_from_video
default_max_frames == 30

\* ----------------------------------------------------------- basic values
\* Python None, as a record so that it compares with code records
None == [none |-> TRUE]

\* a base reference of a class declaration: ast.Name (id), ast.Attribute
\* (value.attr) or another expression; ident is what the scan reads as
\* base_id, a sequence of words so that a suffix test is a test on its last
\* word; value is the part of a dotted reference before the last attribute
NameBase(words) == [kind |-> "Name", value |-> <<>>, ident |-> words]
AttrBase(value, words) == [kind |-> "Attribute", value |-> value, ident |-> words]
\* a base that is neither: getattr(base, "attr", "") is ""
OtherBase == [kind |-> "Other", value |-> <<>>, ident |-> <<>>]

\* a class declaration: its name, its bases, and the depth of its ClassDef
\* node in the syntax tree (1 for a statement of the module body)
ClassDecl(name, bases, depth) == [name |-> name, bases |-> bases, depth |-> depth]

\* candidate source texts.  syntax_ok: ast.parse accepts the text;
\* classes: the class declarations in the order of the source text
EmptyCode ==
  [none |-> FALSE, text |-> "", syntax_ok |-> TRUE, classes |-> <<>>]
BrokenCode ==
  [none |-> FALSE, text |-> "class A(Scene:", syntax_ok |-> FALSE, classes |-> <<>>]
TwoSceneCode ==
  [none |-> FALSE, text |-> "two scenes", syntax_ok |-> TRUE,
   classes |-> << ClassDecl("A", <<NameBase(<<"Scene">>)>>, 1),
                  ClassDecl("Helper", <<NameBase(<<"Scene", "Helper">>)>>, 1),
                  ClassDecl("B", <<AttrBase(<<"pkg">>, <<"Custom", "Scene">>)>>, 1) >>]

\* the text get_completion_with_retry returns when the upstream call fails
\* with an error that is not a rate limit
SentinelText == "Review model failed to generate response."

\* a text that is no Python program, read as a candidate
ProseCode(t) == [none |-> FALSE, text |-> t, syntax_ok |-> FALSE, classes |-> <<>>]

\* a response of the upstream model: its text and the first fenced code
\* block in it (None when the text has no fenced block)
FencedResponse(c) == [text |-> "fenced", block |-> c]
BareResponse(t) == [text |-> t, block |-> None]

\* what the upstream answers to a code request / to a review request
CodeResponses == {FencedResponse(EmptyCode), FencedResponse(BrokenCode),
                  FencedResponse(TwoSceneCode)}
\* the critique of review call n is a text of its own
ReviewResponses(n) == {BareResponse("critique " \o ToString(n))}

\* Python truthiness of a str | None value
Truthy(c) == ~c.none /\ c.text # ""

\* mutant: a text without a fenced block gives the empty code
parse_code_block_EmptyOnMiss(r) ==
  IF ~r.block.none THEN r.block ELSE EmptyCode

\* re.search for the first fenced block; group(1).strip() if found else text
parse_code_block(r) ==
  IF ~r.block.none THEN r.block ELSE ProseCode(r.text)

\* base_id.endswith("Scene")
EndsWithScene(base) ==
  Len(base.ident) > 0 /\ base.ident[Len(base.ident)] = "Scene"

\* mutant: the loop over the bases does not stop at the first match
NamesFromBases_NoBreak(name, bases) ==
  SelectSeq([k \in 1..Len(bases) |-> IF EndsWithScene(bases[k]) THEN name ELSE ""],
            LAMBDA n : n # "")

\* for base in node.bases: if base_id.endswith("Scene"): append the class
\* name and break
RECURSIVE NamesFromBases(_, _)
NamesFromBases(name, bases) ==
  IF bases = <<>> THEN <<>>
  ELSE IF EndsWithScene(Head(bases)) THEN <<name>>
  ELSE NamesFromBases(name, Tail(bases))

\* the declarations of a source-ordered list whose node has depth d
RECURSIVE AtDepth(_, _)
AtDepth(classes, d) ==
  IF classes = <<>> THEN <<>>
  ELSE (IF Head(classes).depth = d THEN <<Head(classes)>> ELSE <<>>)
       \o AtDepth(Tail(classes), d)

\* ast.walk is breadth first: the nodes of depth d come before the nodes of
\* depth d + 1, and the nodes of one depth come in source order
RECURSIVE WalkFrom(_, _)
WalkFrom(classes, d) ==
  IF \A k \in 1..Len(classes) : classes[k].depth < d THEN <<>>
  ELSE AtDepth(classes, d) \o WalkFrom(classes, d + 1)

\* mutant: the nodes are visited in the order of the source text
WalkOrder_Source(classes) == classes

\* the ClassDef nodes in the order ast.walk yields them
WalkOrder(classes) == WalkFrom(classes, 1)

RECURSIVE SceneNamesOf(_)
SceneNamesOf(classes) ==
  IF classes = <<>> THEN <<>>
  ELSE NamesFromBases(Head(classes).name, Head(classes).bases)
       \o SceneNamesOf(Tail(classes))

\* list of scene names, or the SceneParsingError returned as a value
extract_scene_class_names(code) ==
  IF ~code.syntax_ok
  THEN [is_error |-> TRUE, names |-> <<>>]
  ELSE [is_error |-> FALSE, names |-> SceneNamesOf(WalkOrder(code.classes))]

\* a rate is kept as the fraction num / den, den > 0
Rate(num, den) == [num |-> num, den |-> den]
\* mutant: the comparison with the threshold is strict
RateAtLeast_Strict(rate, t) == rate.num > t * rate.den

\* rate >= t, for an integer t
RateAtLeast(rate, t) == rate.num >= t * rate.den

\* mutant: the error value of a failed scan is not told from a list
calculate_scene_success_rate_NoErrorTest(successful, scene_names) ==
  IF Len(scene_names.names) = 0 THEN <<Rate(0, 1), 0, 0>>
  ELSE << Rate(Len(successful) * 100, Len(scene_names.names)),
          Len(successful), Len(scene_names.names) >>

\* mutant: a candidate without scenes is rated as fully rendered
calculate_scene_success_rate_VacuousFull(successful, scene_names) ==
  IF scene_names.is_error THEN <<Rate(0, 1), 0, 0>>
  ELSE IF Len(scene_names.names) = 0 THEN <<Rate(100, 1), 0, 0>>
  ELSE << Rate(Len(successful) * 100, Len(scene_names.names)),
          Len(successful), Len(scene_names.names) >>

\* (success_rate, scenes_rendered, total_scenes), with
\* success_rate = (scenes_rendered / total_scenes) * 100
calculate_scene_success_rate(successful, scene_names) ==
  IF scene_names.is_error THEN <<Rate(0, 1), 0, 0>>
  ELSE IF Len(scene_names.names) = 0 THEN <<Rate(0, 1), 0, 0>>
  ELSE << Rate(Len(successful) * 100, Len(scene_names.names)),
          Len(successful), Len(scene_names.names) >>

\* ------------------------------------------------------------- log values
\* one unit's delimited segment of the aggregated log
LogSegment(scene, out, err) ==
  [type |-> "segment", scene |-> scene, stdout |-> out, stderr |-> err]
\* "<!> Scene ... timed out after ... seconds"
TimeoutNote(scene) ==
  [type |-> "timeout", scene |-> scene, stdout |-> "", stderr |-> ""]
\* "Code parsing failed: ..."
ParseErrorLog ==
  << [type |-> "parse_error", scene |-> "", stdout |-> "", stderr |-> ""] >>

\* ------------------------------------------------------------ environment
\* what one manim subprocess does: whether it ends before the deadline, its
\* exit status, its output, and whether it wrote <Scene>.mp4
SceneOutcomes ==
  { [in_time |-> TRUE, returncode |-> 0, stdout |-> "rendered", stderr |-> "", video |-> "good"],
    [in_time |-> TRUE, returncode |-> 0, stdout |-> "rendered", stderr |-> "", video |-> "none"],
    [in_time |-> TRUE, returncode |-> 1, stdout |-> "", stderr |-> "traceback", video |-> "none"],
    [in_time |-> FALSE, returncode |-> -9, stdout |-> "partial", stderr |-> "", video |-> "none"],
    [in_time |-> FALSE, returncode |-> 0, stdout |-> "partial", stderr |-> "", video |-> "none"] }

\* what a <Scene>.mp4 can be like: "good" opens, decodes and encodes, the
\* others fail at VideoCapture, at cap.read and at cv2.imencode
VideoStates == {"good", "unopenable", "undecodable", "unencodable"}

\* videos from which several frames are extracted: all of them encode, or
\* one of them does not
ManyFrameStates == {"good_many", "good_partial"}

\* the outcomes of a render subprocess with every combination of how it
\* ended and what it left at <Scene>.mp4: a subprocess can write the file and
\* then fail or be killed, and can exit with status 0 without writing it
MediaOutcomes ==
  { [in_time |-> e.in_time, returncode |-> e.returncode, stdout |-> "",
     stderr |-> "", video |-> v] :
      e \in { [in_time |-> TRUE, returncode |-> 0],
              [in_time |-> TRUE, returncode |-> 1],
              [in_time |-> FALSE, returncode |-> -9] },
      v \in VideoStates \cup {"none"} }

\* the same, with the videos of several frames
FrameOutcomes ==
  MediaOutcomes \cup
  { [in_time |-> e.in_time, returncode |-> e.returncode, stdout |-> "",
     stderr |-> "", video |-> v] :
      e \in { [in_time |-> TRUE, returncode |-> 0],
              [in_time |-> TRUE, returncode |-> 1],
              [in_time |-> FALSE, returncode |-> -9] },
      v \in ManyFrameStates }

\* signals of the upstream completion() call
Signals == {"ok", "rate_limit", "error"}

\* the configurations of a run; headless with streaming is left out, since
\* get_response_with_status ignores the streaming flag when headless
Configs ==
  { c \in [review_cycles : 0..MaxCycles, headless : BOOLEAN, streaming : BOOLEAN] :
      ~(c.headless /\ c.streaming) }

VARIABLES
  config,              \* the parsed configuration (main)
  pc,                  \* position of the control thread
  error,               \* the exception that ended the run, "" if none
  cycle,               \* loop variable of review_and_update_code
  current_code,        \* main / review_and_update_code: current_code
  main_working_code,   \* main: working_code
  working_code,        \* review_and_update_code: working_code
  combined_logs,       \* log of the latest execution
  last_frames,         \* frames of the latest execution
  successful_scenes,   \* successful scenes of the latest execution
  previous_reviews,    \* review_and_update_code: previous_reviews
  review,              \* review_and_update_code: review (latest critique)
  cycles_completed,    \* ManimWorkflow.cycles_completed
  execution_count,     \* ManimWorkflow.execution_count
  successful_executions, \* ManimWorkflow.successful_executions
  execution_history,   \* ManimWorkflow.execution_history
  initial_success,     \* ManimWorkflow.initial_success
  usage_steps,         \* usage_tracker.token_usage_tracking["steps"]
  usage_totals,        \* total_tokens, total_cost, total_llm_time of the tracker
  status_log,          \* the phases announced by _update_status / update
  executed_codes,      \* the texts handed to run_manim_multiscene, in order
  messages,            \* prompt of the generator call in flight
  call,                \* locals of get_*_completion_with_retry
  upstream,            \* last signal and answer of the upstream completion()
  result,              \* value returned by get_response_with_status
  run,                 \* locals of run_manim_multiscene
  spawned,             \* subprocesses spawned by the latest execution
  video_py,            \* content of <output_dir>/video.py
  media_dir_exists,    \* <media_dir>/videos/video/480p15 exists
  video_files,         \* the <Scene>.mp4 files in that directory
  console,             \* what finalize_output and main print at the end
  probe                \* a library function under test: arguments and result

vars == << config, pc, error, cycle, current_code, main_working_code,
           working_code, combined_logs, last_frames, successful_scenes,
           previous_reviews, review, cycles_completed, execution_count,
           successful_executions, execution_history, initial_success,
           usage_steps, usage_totals, status_log, executed_codes, messages, call, upstream,
           result, run, spawned, video_py, media_dir_exists, video_files,
           console, probe >>

\* groups of variables, for UNCHANGED
sessionVars == << cycles_completed, execution_count, successful_executions,
                  execution_history, initial_success >>
loopVars == << cycle, current_code, main_working_code, working_code,
               combined_logs, last_frames, successful_scenes,
               previous_reviews, review >>
runVars == << run, spawned, video_py, media_dir_exists, video_files,
              executed_codes >>
callVars == << messages, call, upstream, result >>

NoMessages == [kind |-> "none"]
\* TokenUsageTracker.__init__: the totals of a new tracker; times and costs
\* are counted in whole units
ZeroTotals == [total_tokens |-> 0, total_cost |-> 0, total_llm_time |-> 0]
\* no "Execution Errors" panel was printed
NoPanel == [shown |-> FALSE, logs |-> <<>>]
\* nothing printed at the end so far
NoConsole == [code_saved |-> FALSE, not_executable |-> FALSE,
              errors_panel |-> NoPanel, final_working |-> "",
              complete |-> FALSE, saved_to |-> FALSE]
IdleCall == [state |-> "idle", fn |-> "", retries |-> 0, attempts |-> 0,
             sleeps |-> <<>>]
NoUpstream == [signal |-> "none", response |-> BareResponse("")]
NoResult == [response |-> BareResponse(""), zero_usage |-> FALSE]
NoProbe == [fn |-> "none"]
IdleRun == [phase |-> "idle", code |-> None, step |-> "",
            scene_names |-> [is_error |-> FALSE, names |-> <<>>],
            idx |-> 0, combined_logs |-> <<>>, rendering_success |-> TRUE,
            successful_scenes |-> <<>>, frames |-> <<>>]

\* the state of a session right after ManimWorkflow was constructed
Constructed ==
  /\ pc = "start"
  /\ error = ""
  /\ cycle = 0
  /\ current_code = None
  /\ main_working_code = None
  /\ working_code = None
  /\ combined_logs = <<>>
  /\ last_frames = <<>>
  /\ successful_scenes = <<>>
  /\ previous_reviews = <<>>
  /\ review = ""
  /\ cycles_completed = 0
  /\ execution_count = 0
  /\ successful_executions = 0
  /\ execution_history = <<>>
  /\ initial_success = FALSE
  /\ usage_steps = <<>>
  /\ usage_totals = ZeroTotals
  /\ status_log = <<>>
  /\ executed_codes = <<>>
  /\ messages = NoMessages
  /\ call = IdleCall
  /\ upstream = NoUpstream
  /\ result = NoResult
  /\ run = IdleRun
  /\ spawned = <<>>
  /\ video_py = None
  /\ media_dir_exists = FALSE
  /\ video_files = {}
  /\ console = NoConsole

Init ==
  /\ config \in Configs
  /\ Constructed
  /\ probe = NoProbe


\* ------------------------------------------------- generator client (llm)
\* get_response_with_status: streaming and not headless selects the
\* streaming generator, every other configuration the blocking call
CallFunction ==
  IF config.streaming /\ ~config.headless
  THEN "get_streaming_completion_with_retry"
  ELSE "get_completion_with_retry"

\* entry of a retry function: retries = 0
NewCall == [state |-> "active", fn |-> CallFunction, retries |-> 0,
            attempts |-> 0, sleeps |-> <<>>]

\* mutant: the loop catches the exception of a call made in a cycle
RaiseTarget_Contained(site) ==
  IF site = "generate_initial" THEN "aborted" ELSE "finalize"

\* where control goes when a generator call raises: neither
\* review_and_update_code nor main has a handler, so the run ends there
RaiseTarget(site) == "aborted"

\* mutant: the loop condition is off by one
RetryLoopContinues_OffByOne(retries) == retries <= max_retries

\* while retries < max_retries
RetryLoopContinues(retries) == retries < max_retries

\* mutant: the wait does not grow with the number of retries
wait_time_Constant(retries) == 2

\* wait_time = min(2 * retries, 30)
wait_time(retries) == IF 2 * retries < 30 THEN 2 * retries ELSE 30

\* the control states in which a generator call is made
CallSites == {"generate_initial", "review", "revise"}

\* what the upstream can answer at a call site
ResponsesAt(site, n) ==
  IF site = "review" THEN ReviewResponses(n) ELSE CodeResponses

\* one loop iteration whose completion() call succeeds: the result is returned
AttemptOk ==
  /\ pc \in CallSites /\ call.state = "active"
  /\ \E resp \in ResponsesAt(pc, cycle + 1) :
       /\ upstream' = [signal |-> "ok", response |-> resp]
       /\ result' = [response |-> resp, zero_usage |-> FALSE]
  /\ call' = [call EXCEPT !.state = "returned", !.attempts = @ + 1]
  /\ UNCHANGED << probe, console, config, pc, error, loopVars, sessionVars, usage_steps, usage_totals,
                  status_log, messages, runVars >>

\* one loop iteration that ends in RateLimitError: count, sleep, and either
\* loop again or fall out of the loop into the raise
AttemptRateLimited ==
  /\ pc \in CallSites /\ call.state = "active"
  /\ upstream' = [signal |-> "rate_limit", response |-> BareResponse("")]
  /\ LET r == call.retries + 1 IN
       /\ call' = [call EXCEPT !.retries = r, !.attempts = @ + 1,
                               !.sleeps = Append(@, wait_time(r)),
                               !.state = IF RetryLoopContinues(r)
                                         THEN "active" ELSE "raised"]
       /\ IF RetryLoopContinues(r)
          THEN UNCHANGED << pc, error >>
          ELSE pc' = RaiseTarget(pc) /\ error' = "Max retries exceeded."
  /\ UNCHANGED << probe, console, config, loopVars, sessionVars, usage_steps, usage_totals, status_log,
                  messages, result, runVars >>

\* mutant: no retry function has a handler for other exceptions
HandlesOtherErrors_Never(fn) == FALSE

\* which retry function has an "except Exception" clause next to its
\* "except RateLimitError" clause
HandlesOtherErrors(fn) == fn = "get_completion_with_retry"

\* one loop iteration that ends in another exception: the blocking call
\* returns the sentinel text with a zeroed usage record; the streaming
\* generator has no handler for it, so the exception leaves the generator
AttemptError ==
  /\ pc \in CallSites /\ call.state = "active"
  /\ upstream' = [signal |-> "error", response |-> BareResponse("")]
  /\ IF HandlesOtherErrors(call.fn)
     THEN /\ call' = [call EXCEPT !.state = "returned", !.attempts = @ + 1]
          /\ result' = [response |-> BareResponse(SentinelText),
                        zero_usage |-> TRUE]
          /\ UNCHANGED << pc, error >>
     ELSE /\ call' = [call EXCEPT !.state = "raised", !.attempts = @ + 1]
          /\ pc' = RaiseTarget(pc) /\ error' = "upstream error"
          /\ UNCHANGED result
  /\ UNCHANGED << probe, console, config, loopVars, sessionVars, usage_steps, usage_totals, status_log,
                  messages, runVars >>

\* mutant: the review is followed by an execution, the revision is skipped
AfterCall_SkipRevision(site) ==
  CASE site = "generate_initial" -> "execute_initial"
    [] site = "review" -> "execute_revision"
    [] site = "revise" -> "execute_revision"

\* the statement that follows a generator call: the initial code is
\* executed, a review is followed by its revision, a revision is executed
AfterCall(site) ==
  CASE site = "generate_initial" -> "execute_initial"
    [] site = "review" -> "revise"
    [] site = "revise" -> "execute_revision"

\* the usage record of the sentinel answer
empty_usage ==
  [prompt_tokens |-> 0, completion_tokens |-> 0, total_tokens |-> 0,
   cost |-> 0, llm_time |-> 0]

\* the usage record _build_usage_info makes of an upstream answer: the
\* upstream reports the same usage for every answer
built_usage ==
  [prompt_tokens |-> 3, completion_tokens |-> 4, total_tokens |-> 7,
   reasoning_tokens |-> 1, answer_tokens |-> 3, cost |-> 2, llm_time |-> 5]

\* the usage_info that comes with the result of a generator call
UsageOf(res) == IF res.zero_usage THEN empty_usage ELSE built_usage

\* usage_info.get(key, default)
Get(usage_info, key, default) ==
  IF key \in DOMAIN usage_info THEN usage_info[key] ELSE default

\* mutant: the cost is added to the total only when tokens were counted
add_totals_CostWithTokens(totals, usage_info) ==
  [total_tokens |-> totals.total_tokens + Get(usage_info, "total_tokens", 0),
   total_cost |-> totals.total_cost
                    + (IF "total_tokens" \in DOMAIN usage_info
                       THEN Get(usage_info, "cost", 0) ELSE 0),
   total_llm_time |-> totals.total_llm_time + Get(usage_info, "llm_time", 0)]

\* add_step: total_tokens += usage_info.get("total_tokens", 0), and the same
\* for cost and llm_time
add_totals(totals, usage_info) ==
  [total_tokens |-> totals.total_tokens + Get(usage_info, "total_tokens", 0),
   total_cost |-> totals.total_cost + Get(usage_info, "cost", 0),
   total_llm_time |-> totals.total_llm_time + Get(usage_info, "llm_time", 0)]

\* add_step: step_info = {"step": step_name, "model": model, **usage_info};
\* the step name is kept as its text and its number
step_info(name, n, zero, usage_info) ==
  [step |-> name, n |-> n, zero_usage |-> zero, usage |-> usage_info]

\* usage_tracker.add_step(step_name, model, usage_info): the step is appended
add_step(steps, name, n, res) ==
  Append(steps, step_info(name, n, res.zero_usage, UsageOf(res)))

\* ------------------------------------------------------------ orchestrator
\* generate_initial_code up to the generator call
GenerateInitialStart ==
  /\ pc = "start"
  /\ pc' = "generate_initial"
  /\ status_log' = Append(status_log, <<"Initial Code Generation", 0>>)
  /\ messages' = [kind |-> "init"]
  /\ call' = NewCall
  /\ UNCHANGED << probe, console, config, error, loopVars, sessionVars, usage_steps, usage_totals,
                  upstream, result, runVars >>

\* generate_initial_code after the generator call returned
GenerateInitialReturn ==
  /\ pc = "generate_initial" /\ call.state = "returned"
  /\ usage_steps' = add_step(usage_steps, "Initial Code Generation", 0, result)
  /\ usage_totals' = add_totals(usage_totals, UsageOf(result))
  /\ current_code' = parse_code_block(result.response)
  /\ pc' = AfterCall(pc)
  /\ call' = IdleCall /\ upstream' = NoUpstream /\ messages' = NoMessages
  /\ UNCHANGED << probe, console, config, error, cycle, main_working_code, working_code,
                  combined_logs, last_frames, successful_scenes,
                  previous_reviews, review, sessionVars, status_log, result,
                  runVars >>

\* -------------------------------------------------- unit execution runner
\* step name of the execution made in the current control state
StepName == IF pc = "execute_initial" THEN "Initial" ELSE "Revision"
StepNumber == IF pc = "execute_initial" THEN 0 ELSE cycle + 1

\* isinstance(scene_names, Exception)
ScanFailed(scene_names) == scene_names.is_error

\* mutant: the log collected so far is returned instead of the error text
ParseFailureReturn_EmptyLog ==
  [rendering_success |-> FALSE, frames |-> <<>>,
   combined_logs |-> <<>>, successful_scenes |-> <<>>]

\* the tuple returned when the scan failed: False, [], error_msg, []
ParseFailureReturn ==
  [rendering_success |-> FALSE, frames |-> <<>>,
   combined_logs |-> ParseErrorLog, successful_scenes |-> <<>>]

\* mutant: the timeout note is not appended
log_entry_NoNote(scene, stdout, stderr, timed_out) ==
  <<LogSegment(scene, stdout, stderr)>>

\* the log entry of one unit: its segment, then the timeout note if any
log_entry(scene, stdout, stderr, timed_out) ==
  <<LogSegment(scene, stdout, stderr)>>
    \o (IF timed_out THEN <<TimeoutNote(scene)>> ELSE <<>>)

\* mutant: only the exit status is tested
SceneSucceeded_ExitOnly(timed_out, returncode) == returncode = 0

\* the branch that appends the scene to successful_scenes: neither
\* timed_out nor returncode != 0
SceneSucceeded(timed_out, returncode) == ~timed_out /\ returncode = 0

\* rendering_success after one unit: set to False by a timeout or by a
\* nonzero exit status, never set back
RenderingSuccessAfter(before, timed_out, returncode) ==
  IF timed_out \/ returncode # 0 THEN FALSE ELSE before

\* the file <scene>.mp4 as written by the subprocess of execution number by
VideoFile(scene, by, state) == [scene |-> scene, by |-> by, state |-> state]

\* a subprocess writes <scene>.mp4, replacing a file of that name
WriteVideo(files, scene, by, state) ==
  {f \in files : f.scene # scene} \cup {VideoFile(scene, by, state)}

\* the positions extract_frames_from_video returns the frames of: one for a
\* "good" video, three for the videos with several frames, none (the value
\* None) for a video that does not open or decode
ExtractedPositions(state) ==
  CASE state \in {"good", "unencodable"} -> <<0>>
    [] state \in {"good_many", "good_partial"} -> <<0, 2, 4>>
    [] OTHER -> <<>>

\* success of cv2.imencode for frame number idx of the extracted frames: the
\* second frame of a "good_partial" video cannot be encoded
Encodes(state, idx) ==
  \/ state \in {"good", "good_many"}
  \/ state = "good_partial" /\ idx # 2

\* mutant: every frame name carries its number
FrameSuffix_Always(idx, n) == idx

\* frame_name = f"{scene}_{idx + 1}" if len(extracted_frames) > 1 else scene;
\* the suffix 0 stands for a name without a number
FrameSuffix(idx, n) == IF n > 1 THEN idx ELSE 0

\* for idx, frame in enumerate(extracted_frames): the frames that encode,
\* from frame number idx on; a frame carries its name (scene and suffix)
\* and, for its data, the execution that wrote the file and the position
RECURSIVE EncodedFrames(_, _, _)
EncodedFrames(f, positions, idx) ==
  IF idx > Len(positions) THEN <<>>
  ELSE (IF Encodes(f.state, idx)
        THEN << [scene |-> f.scene, by |-> f.by,
                 suffix |-> FrameSuffix(idx, Len(positions)),
                 pos |-> positions[idx]] >>
        ELSE <<>>)
       \o EncodedFrames(f, positions, idx + 1)

\* the frames of one scene: none when <scene>.mp4 does not exist, when
\* extract_frames_from_video returns None or raises, or when imencode fails;
\* a frame is named by its scene and carries the data of the file it came from
SceneFrames(scene, files) ==
  LET found == {f \in files : f.scene = scene} IN
  IF found = {} THEN <<>>
  ELSE LET f == CHOOSE g \in found : TRUE IN
       EncodedFrames(f, ExtractedPositions(f.state), 1)

\* mutant: the first scene without a frame ends the sampling
RECURSIVE FramesOf_StopOnFailure(_, _)
FramesOf_StopOnFailure(scenes, files) ==
  IF scenes = <<>> THEN <<>>
  ELSE IF SceneFrames(Head(scenes), files) = <<>> THEN <<>>
  ELSE SceneFrames(Head(scenes), files)
       \o FramesOf_StopOnFailure(Tail(scenes), files)

\* frames of the successful scenes, in the order of successful_scenes
RECURSIVE FramesOf(_, _)
FramesOf(scenes, files) ==
  IF scenes = <<>> THEN <<>>
  ELSE SceneFrames(Head(scenes), files) \o FramesOf(Tail(scenes), files)

\* set of the elements of a sequence
Range(seq) == {seq[k] : k \in 1..Len(seq)}

\* execute_code up to the scan done by run_manim_multiscene: announce the
\* step, write video.py, scan; a failed scan returns at once
ExecStart ==
  /\ pc \in {"execute_initial", "execute_revision"} /\ run.phase = "idle"
  /\ status_log' = Append(status_log, <<"Running Manim Script", StepNumber>>)
  /\ video_py' = current_code
  /\ executed_codes' = Append(executed_codes, current_code)
  /\ spawned' = <<>>
  /\ LET scene_names == extract_scene_class_names(current_code) IN
       IF ScanFailed(scene_names)
       THEN run' = [phase |-> "returning", code |-> current_code,
                    step |-> StepName, scene_names |-> scene_names, idx |-> 0,
                    combined_logs |-> ParseFailureReturn.combined_logs,
                    rendering_success |-> ParseFailureReturn.rendering_success,
                    successful_scenes |-> ParseFailureReturn.successful_scenes,
                    frames |-> ParseFailureReturn.frames]
       ELSE run' = [phase |-> "scenes", code |-> current_code,
                    step |-> StepName, scene_names |-> scene_names, idx |-> 1,
                    combined_logs |-> <<>>, rendering_success |-> TRUE,
                    successful_scenes |-> <<>>, frames |-> <<>>]
  /\ UNCHANGED << probe, console, config, pc, error, loopVars, sessionVars, usage_steps, usage_totals,
                  callVars, media_dir_exists, video_files >>

\* mutant: the loop over the units ends at the first failed unit
MoreScenes_StopOnFailure(r) ==
  r.idx <= Len(r.scene_names.names) /\ r.rendering_success

\* for scene in scene_names: is there a unit left to run
MoreScenes(r) == r.idx <= Len(r.scene_names.names)

\* one iteration of "for scene in scene_names": spawn the subprocess, wait
\* for it up to scene_timeout, kill it on expiry, collect its output (the
\* manim executable is taken to exist, so that Popen itself does not raise)
\* mutant: a subprocess that ran into the timeout is left running
Killed_Never(timed_out) == FALSE

\* except subprocess.TimeoutExpired: process.kill(), and communicate() again
\* to wait for its end; a subprocess that ended in time needs no kill
Killed(timed_out) == timed_out

RunSceneWith(outcomes) ==
  /\ run.phase = "scenes" /\ MoreScenes(run)
  /\ \E o \in outcomes :
       LET scene == run.scene_names.names[run.idx]
           timed_out == ~o.in_time
       IN
       /\ spawned' = Append(spawned, [scene |-> scene,
                                      returncode |-> o.returncode,
                                      timed_out |-> timed_out,
                                      killed |-> Killed(timed_out),
                                      stdout |-> o.stdout,
                                      stderr |-> o.stderr])
       /\ run' = [run EXCEPT
            !.idx = @ + 1,
            !.combined_logs = @ \o log_entry(scene, o.stdout, o.stderr, timed_out),
            !.rendering_success = RenderingSuccessAfter(@, timed_out, o.returncode),
            !.successful_scenes = IF SceneSucceeded(timed_out, o.returncode)
                                  THEN Append(@, scene) ELSE @]
       /\ media_dir_exists' = (media_dir_exists \/ o.video # "none")
       /\ video_files' = IF o.video # "none"
                         THEN WriteVideo(video_files, scene,
                                         execution_count + 1, o.video)
                         ELSE video_files
  /\ UNCHANGED << probe, console, config, pc, error, loopVars, sessionVars, usage_steps, usage_totals,
                  status_log, callVars, video_py, executed_codes >>

\* a scene of the candidate is rendered
RunScene == RunSceneWith(SceneOutcomes)

\* a scene is rendered by a subprocess that may leave any kind of file
RunSceneMedia == RunSceneWith(MediaOutcomes)

\* a scene is rendered by a subprocess that may leave any kind of file,
\* videos of several frames included
RunSceneFrames == RunSceneWith(FrameOutcomes)

\* mutant: only the videos that gave a frame are deleted
CleanUp_OnlySampled(files, scenes) ==
  {f \in files : f.scene \notin Range(scenes) \/ f.state # "good"}

\* os.remove of <scene>.mp4 for every successful scene whose file exists
CleanUp(files, scenes) == {f \in files : f.scene \notin Range(scenes)}

\* after the loop: sample frames of the successful scenes when the video
\* directory exists; without it nothing is sampled or deleted
SampleFrames ==
  /\ run.phase = "scenes" /\ ~MoreScenes(run)
  /\ IF media_dir_exists
     THEN run' = [run EXCEPT !.phase = "cleanup",
                    !.frames = FramesOf(run.successful_scenes, video_files)]
     ELSE run' = [run EXCEPT !.phase = "returning"]
  /\ UNCHANGED << probe, console, config, pc, error, loopVars, sessionVars, usage_steps, usage_totals,
                  status_log, callVars, spawned, video_py, media_dir_exists,
                  video_files, executed_codes >>

\* after the sampling: delete the videos of the successful scenes, then
\* return rendering_success, successful_scenes, combined_logs and frames
CleanUpVideos ==
  /\ run.phase = "cleanup"
  /\ run' = [run EXCEPT !.phase = "returning"]
  /\ video_files' = CleanUp(video_files, run.successful_scenes)
  /\ UNCHANGED << probe, console, config, pc, error, loopVars, sessionVars, usage_steps, usage_totals,
                  status_log, callVars, spawned, video_py, media_dir_exists,
                  executed_codes >>

\* --------------------------------------------------- orchestrator, part 2
\* mutant: the loop stops once an execution has succeeded
HasNextCycle_EarlyExit(c) ==
  c < config.review_cycles /\ successful_executions = 0

\* for cycle in range(review_cycles): is there an iteration numbered c
HasNextCycle(c) == c < config.review_cycles

\* main: working_code = current_code if success else None
InitialWorking(success, code) == IF success THEN code ELSE None

\* mutant: the working code is assigned whatever the execution reported
UpdateWorking_Unconditional(success, code, working) == code

\* review_and_update_code: if success: working_code = current_code
UpdateWorking(success, code, working) == IF success THEN code ELSE working

\* main: working_code = new_working_code if new_working_code else working_code
MergeWorking(new_working_code, old) ==
  IF Truthy(new_working_code) THEN new_working_code ELSE old

\* the entry execute_code appends to execution_history; the entry's
\* successful_scenes and requested_scenes are written and never read, and
\* are left out
HistoryEntry ==
  [step |-> run.step, n |-> StepNumber,
   success |-> run.rendering_success]

\* mutant: only a successful execution is counted
ExecuteBookkeeping_CountSuccessOnly ==
  /\ execution_count' =
       IF run.rendering_success THEN execution_count + 1 ELSE execution_count
  /\ successful_executions' =
       IF run.rendering_success THEN successful_executions + 1
       ELSE successful_executions
  /\ execution_history' = Append(execution_history, HistoryEntry)
  /\ combined_logs' = run.combined_logs
  /\ last_frames' = run.frames
  /\ successful_scenes' = run.successful_scenes
  /\ run' = IdleRun
  /\ spawned' = <<>>

\* the bookkeeping of execute_code after run_manim_multiscene returned
ExecuteBookkeeping ==
  /\ execution_count' = execution_count + 1
  /\ successful_executions' =
       IF run.rendering_success THEN successful_executions + 1
       ELSE successful_executions
  /\ execution_history' = Append(execution_history, HistoryEntry)
  /\ combined_logs' = run.combined_logs
  /\ last_frames' = run.frames
  /\ successful_scenes' = run.successful_scenes
  /\ run' = IdleRun
  /\ spawned' = <<>>

\* the initial execution returns to main, which sets initial_success and
\* working_code and enters review_and_update_code (working_code = None,
\* previous_reviews = []); with no cycle configured the loop is skipped and
\* main merges the returned working code
ExecuteInitialReturn ==
  /\ pc = "execute_initial" /\ run.phase = "returning"
  /\ ExecuteBookkeeping
  /\ initial_success' = run.rendering_success
  /\ working_code' = None
  /\ previous_reviews' = <<>>
  /\ cycle' = 0
  /\ LET w == InitialWorking(run.rendering_success, current_code) IN
       IF HasNextCycle(0)
       THEN pc' = "review" /\ main_working_code' = w
       ELSE pc' = "finalize" /\ main_working_code' = MergeWorking(None, w)
  /\ UNCHANGED << probe, console, config, error, current_code, review, cycles_completed,
                  usage_steps, usage_totals, status_log, callVars, video_py,
                  media_dir_exists, video_files, executed_codes >>

\* the execution of a revision returns into the loop body: update
\* working_code, count the cycle, and start the next cycle or return to
\* main, which merges the returned working code
ExecuteRevisionReturn ==
  /\ pc = "execute_revision" /\ run.phase = "returning"
  /\ ExecuteBookkeeping
  /\ cycles_completed' = cycle + 1
  /\ cycle' = cycle + 1
  /\ LET w == UpdateWorking(run.rendering_success, current_code, working_code) IN
       /\ working_code' = w
       /\ IF HasNextCycle(cycle + 1)
          THEN pc' = "review" /\ UNCHANGED main_working_code
          ELSE pc' = "finalize"
               /\ main_working_code' = MergeWorking(w, main_working_code)
  /\ UNCHANGED << probe, console, config, error, current_code, previous_reviews, review,
                  initial_success, usage_steps, usage_totals, status_log, callVars,
                  video_py, media_dir_exists, video_files, executed_codes >>

\* mutant: the enhanced prompt is used as soon as one scene rendered
PromptName_AnyRendered(successful, code) ==
  IF Len(successful) > 0 THEN "review_prompt_enhanced" ELSE "review_prompt"

\* use_enhanced_prompt = success_rate >= success_threshold
PromptName(successful, code) ==
  LET rate == calculate_scene_success_rate(successful,
                                           extract_scene_class_names(code))
  IN IF RateAtLeast(rate[1], success_threshold)
     THEN "review_prompt_enhanced" ELSE "review_prompt"

\* mutant: the tags are numbered from 1
format_previous_reviews_FromOne(reviews) ==
  [k \in 1..Len(reviews) |->
     [tag |-> "review_" \o ToString(k), feedback |-> reviews[k]]]

\* "<review_idx>\n feedback \n</review_idx>" for idx, feedback in
\* enumerate(previous_reviews), joined by newlines: one tagged block per
\* review, and no block (the empty string) for an empty list
format_previous_reviews(reviews) ==
  [k \in 1..Len(reviews) |->
     [tag |-> "review_" \o ToString(k - 1), feedback |-> reviews[k]]]

\* the replacements handed to format_prompt: the enhanced prompt is given
\* the rate and the two counts, the standard prompt is not
ReviewReplacements(reviews, code, logs, successful) ==
  LET rate == calculate_scene_success_rate(successful,
                                           extract_scene_class_names(code))
  IN IF PromptName(successful, code) = "review_prompt_enhanced"
     THEN [previous_reviews |-> format_previous_reviews(reviews),
           video_code |-> code, execution_logs |-> logs,
           success_rate |-> rate[1], scenes_rendered |-> rate[2],
           total_scenes |-> rate[3]]
     ELSE [previous_reviews |-> format_previous_reviews(reviews),
           video_code |-> code, execution_logs |-> logs]

\* mutant: the review is given the working code when there is one
ReviewTarget_Working ==
  IF ~working_code.none THEN working_code
  ELSE IF ~main_working_code.none THEN main_working_code
  ELSE current_code

\* the code handed to _generate_review: the loop's current_code, which is
\* the initial code or the revision of the previous cycle
ReviewTarget == current_code

\* start of a cycle and _generate_review up to the generator call; the
\* frames are part of the prompt when vision is enabled, which the model
\* takes to be the case
ReviewStart ==
  /\ pc = "review" /\ call.state = "idle"
  /\ status_log' = Append(status_log, <<"Review Cycle", cycle + 1>>)
  /\ messages' = [kind |-> "review",
                  prompt_name |-> PromptName(successful_scenes, ReviewTarget),
                  replacements |-> ReviewReplacements(previous_reviews,
                                     ReviewTarget, combined_logs,
                                     successful_scenes),
                  frames |-> last_frames]
  /\ call' = NewCall
  /\ UNCHANGED << probe, console, config, pc, error, loopVars, sessionVars, usage_steps, usage_totals,
                  upstream, result, runVars >>

\* _generate_review after the call returned, and previous_reviews.append
ReviewReturn ==
  /\ pc = "review" /\ call.state = "returned"
  /\ usage_steps' = add_step(usage_steps, "Review Cycle", cycle + 1, result)
  /\ usage_totals' = add_totals(usage_totals, UsageOf(result))
  /\ review' = result.response.text
  /\ previous_reviews' = Append(previous_reviews, result.response.text)
  /\ pc' = AfterCall(pc)
  /\ call' = IdleCall /\ upstream' = NoUpstream /\ messages' = NoMessages
  /\ UNCHANGED << probe, console, config, error, cycle, current_code, main_working_code,
                  working_code, combined_logs, last_frames, successful_scenes,
                  sessionVars, status_log, result, runVars >>

\* _generate_code_revision up to the generator call
ReviseStart ==
  /\ pc = "revise" /\ call.state = "idle"
  /\ status_log' = Append(status_log,
                          <<IF config.headless THEN "Code Revision"
                            ELSE "Generating Code Revision", cycle + 1>>)
  /\ messages' = [kind |-> "revision", current_code |-> current_code,
                  review |-> review]
  /\ call' = NewCall
  /\ UNCHANGED << probe, console, config, pc, error, loopVars, sessionVars, usage_steps, usage_totals,
                  upstream, result, runVars >>

\* _generate_code_revision after the call returned
ReviseReturn ==
  /\ pc = "revise" /\ call.state = "returned"
  /\ usage_steps' = add_step(usage_steps, "Code Revision", cycle + 1, result)
  /\ usage_totals' = add_totals(usage_totals, UsageOf(result))
  /\ current_code' = parse_code_block(result.response)
  /\ pc' = AfterCall(pc)
  /\ call' = IdleCall /\ upstream' = NoUpstream /\ messages' = NoMessages
  /\ UNCHANGED << probe, console, config, error, cycle, main_working_code, working_code,
                  combined_logs, last_frames, successful_scenes,
                  previous_reviews, review, sessionVars, status_log, result,
                  runVars >>

\* if not self.headless and Confirm.ask("View final non-working code?")
ShowsFailure(answer) == ~config.headless /\ answer

\* what is printed at the end: by finalize_output "Code saved to" for a
\* truthy working code in interactive mode, and for a falsy one the rule
\* "Final Result - With Errors (Not Executable)", the final code and the
\* panel "Execution Errors" with the logs, if the user asks for them; then
\* by main the summary with "Final working code" in interactive mode, and
\* "Workflow complete" and "Output saved to: <output_dir>/video.py" in
\* headless mode
FinalConsole(answer) ==
  [code_saved |-> Truthy(main_working_code) /\ ~config.headless,
   not_executable |-> ~Truthy(main_working_code) /\ ShowsFailure(answer),
   errors_panel |-> IF ~Truthy(main_working_code) /\ ShowsFailure(answer)
                    THEN [shown |-> TRUE, logs |-> combined_logs]
                    ELSE NoPanel,
   final_working |-> IF config.headless THEN ""
                     ELSE IF ~main_working_code.none THEN "yes" ELSE "no",
   complete |-> config.headless,
   saved_to |-> config.headless]

\* finalize_output and the end of main: a truthy working code is written to
\* video.py, and the outcome is printed; the user's answer to "View final
\* non-working code?" is asked for only in interactive mode without a
\* working code
Finalize ==
  /\ pc = "finalize"
  /\ pc' = "done"
  /\ status_log' = IF config.headless
                   THEN Append(status_log, <<"Finalization", 0>>)
                   ELSE status_log
  /\ video_py' = IF Truthy(main_working_code) THEN main_working_code
                 ELSE video_py
  /\ \E answer \in IF ~config.headless /\ ~Truthy(main_working_code)
                    THEN BOOLEAN ELSE {FALSE} :
       console' = FinalConsole(answer)
  /\ UNCHANGED << probe, config, error, loopVars, sessionVars, usage_steps, usage_totals,
                  callVars, run, spawned, media_dir_exists, video_files,
                  executed_codes >>

Next ==
  \/ GenerateInitialStart
  \/ AttemptOk
  \/ AttemptRateLimited
  \/ AttemptError
  \/ GenerateInitialReturn
  \/ ExecStart
  \/ RunScene
  \/ SampleFrames
  \/ CleanUpVideos
  \/ ExecuteInitialReturn
  \/ ExecuteRevisionReturn
  \/ ReviewStart
  \/ ReviewReturn
  \/ ReviseStart
  \/ ReviseReturn
  \/ Finalize

Spec == Init /\ [][Next]_vars

TypeOK ==
  /\ pc \in {"start", "generate_initial", "execute_initial", "review",
             "revise", "execute_revision", "finalize", "done", "aborted"}
  /\ cycle \in 0..config.review_cycles
  /\ call.retries \in 0..max_retries

\* ------------------------------------------------------ library functions
\* The functions of utils/rendering.py and utils/parsing.py, called on
\* arguments of their own: the initial state holds the arguments, one action
\* per function applies it.

\* mutant: the end point L - 1 is left out of the spacing
linspace_NoEndpoint(L, n) ==
  [i \in 1..n |-> ((i - 1) * (L - 1)) \div n]

\* positions np.linspace(0, L - 1, n, dtype=int) yields: n evenly spaced
\* values from 0 to L - 1, truncated (for the lengths explored the floating
\* point products are exact)
linspace(L, n) ==
  IF n = 1 THEN <<0>>
  ELSE [i \in 1..n |-> ((i - 1) * (L - 1)) \div (n - 1)]

\* the frames read at the given positions: cap.read() gives ret = False for
\* a position the decoder cannot deliver, and that position is skipped
RECURSIVE ReadFrames(_, _)
ReadFrames(positions, readable) ==
  IF positions = <<>> THEN <<>>
  ELSE (IF Head(positions) \in readable THEN <<Head(positions)>> ELSE <<>>)
       \o ReadFrames(Tail(positions), readable)

NoFrames == [none |-> TRUE, frames |-> <<>>]

\* mutant: a frame as dense as the best one so far replaces it
Denser_OrEqual(density, best_density) == density >= best_density

\* if density > best_density
Denser(density, best_density) == density > best_density

\* best_frame = None, best_density = 0
NoBest == [none |-> TRUE, pos |-> 0, density |-> 0]

\* the loop of the highest_density mode over the sampled positions: a
\* position that cannot be read is skipped, a frame denser than the best so
\* far becomes the best; the density of a frame is its number of pixels
\* brighter than 30 (all frames of a video have the same size)
RECURSIVE BestFrame(_, _, _)
BestFrame(positions, video, best) ==
  IF positions = <<>> THEN best
  ELSE LET p == Head(positions) IN
       IF p \notin video.readable THEN BestFrame(Tail(positions), video, best)
       ELSE IF Denser(video.density[p], best.density)
       THEN BestFrame(Tail(positions), video,
                      [none |-> FALSE, pos |-> p, density |-> video.density[p]])
       ELSE BestFrame(Tail(positions), video, best)

\* extract_frames_from_video in its two modes, and for a mode it does not
\* know; a frame is named by its position in the video
extract_frames_from_video(video, mode, frame_count, max_frames) ==
  IF ~video.opened THEN NoFrames
  ELSE IF video.total_frames = 0 THEN NoFrames
  ELSE IF mode = "highest_density"
  THEN LET n == IF max_frames < video.total_frames
                THEN max_frames ELSE video.total_frames
           best == BestFrame(linspace(video.total_frames, n), video, NoBest)
       IN IF ~best.none
          THEN [none |-> FALSE, frames |-> <<best.pos>>]
          ELSE NoFrames
  ELSE IF mode = "fixed_count"
  THEN LET n == IF frame_count < video.total_frames
                THEN frame_count ELSE video.total_frames
           extracted_frames == ReadFrames(linspace(video.total_frames, n),
                                          video.readable)
       IN IF extracted_frames # <<>>
          THEN [none |-> FALSE, frames |-> extracted_frames]
          ELSE NoFrames
  ELSE NoFrames

\* the first k unit names
UnitNames(k) == [i \in 1..k |-> "U" \o ToString(i)]

\* the videos a probe is run on: whether cv2 opens the file, the frame count
\* it reports, and the positions it can deliver
Videos ==
  { v \in [opened : BOOLEAN, total_frames : 0..MaxLength,
           readable : SUBSET (0..(MaxLength - 1))] :
      /\ \A x \in v.readable : x < v.total_frames
      /\ (~v.opened => v.total_frames = 0) }

\* the videos the highest_density mode is probed on: they open, and every
\* frame either cannot be read or has a number of bright pixels
DensityVideos ==
  UNION { { [opened |-> TRUE, total_frames |-> L, readable |-> DOMAIN d,
             density |-> d] :
              d \in UNION {[r -> 0..MaxDensity] : r \in SUBSET (0..(L - 1))} } :
          L \in 1..MaxLength }

\* a count the upstream reports, as opposed to None
Reported(n) == [none |-> FALSE, value |-> n]

\* what an attribute of the upstream usage object can be: None (or not
\* there at all, which getattr(..., None) turns into None) or a count
OptionalCounts == {None} \cup {Reported(n) : n \in 0..MaxTokens}

\* the usage objects handed to _build_usage_info: None, or an object whose
\* completion_tokens_details is None or has text_tokens and reasoning_tokens
UpstreamUsages ==
  {None}
  \cup { [none |-> FALSE, prompt_tokens |-> p, completion_tokens |-> c,
          total_tokens |-> t, completion_tokens_details |-> d] :
           p \in OptionalCounts, c \in OptionalCounts, t \in OptionalCounts,
           d \in {None} \cup
                 { [none |-> FALSE, text_tokens |-> x, reasoning_tokens |-> r] :
                     x \in OptionalCounts, r \in OptionalCounts } }

\* getattr(usage, name, None) if usage else None
GetAttr(usage, name) == IF usage.none THEN None ELSE usage[name]

\* int(x or 0)
IntOrZero(x) == IF x.none THEN 0 ELSE x.value

\* _extract_completion_details: the keys whose value is not None, as ints
extract_completion_details(raw_details) ==
  IF raw_details.none THEN << >>
  ELSE [key \in {k \in {"text_tokens", "reasoning_tokens"} :
                   ~raw_details[k].none} |-> raw_details[key].value]

\* mutant: the difference is not floored
answer_tokens_NoFloor(completion_tokens, reasoning_tokens, completion_details) ==
  IF "text_tokens" \in DOMAIN completion_details
  THEN completion_details["text_tokens"]
  ELSE completion_tokens - reasoning_tokens

\* if text_tokens is not None: int(text_tokens or 0); elif reasoning_tokens:
\* max(completion_tokens - reasoning_tokens, 0); else: completion_tokens
answer_tokens(completion_tokens, reasoning_tokens, completion_details) ==
  IF "text_tokens" \in DOMAIN completion_details
  THEN completion_details["text_tokens"]
  ELSE IF reasoning_tokens # 0
  THEN (IF completion_tokens - reasoning_tokens > 0
        THEN completion_tokens - reasoning_tokens ELSE 0)
  ELSE completion_tokens

\* _build_usage_info without the model, cost and llm_time it passes through
build_usage_info(usage) ==
  LET prompt_tokens == IntOrZero(GetAttr(usage, "prompt_tokens"))
      completion_tokens == IntOrZero(GetAttr(usage, "completion_tokens"))
      total_tokens == IntOrZero(GetAttr(usage, "total_tokens"))
      completion_details ==
        extract_completion_details(GetAttr(usage, "completion_tokens_details"))
      reasoning_tokens == Get(completion_details, "reasoning_tokens", 0)
  IN [prompt_tokens |-> prompt_tokens,
      completion_tokens |-> completion_tokens,
      total_tokens |-> total_tokens,
      reasoning_tokens |-> reasoning_tokens,
      answer_tokens |-> answer_tokens(completion_tokens, reasoning_tokens,
                                      completion_details),
      has_details |-> DOMAIN completion_details # {},
      completion_tokens_details |-> completion_details]

\* the base references a probed class declaration can have
BaseRefs ==
  { NameBase(<<"Scene">>), NameBase(<<"Scene", "Helper">>),
    NameBase(<<"Object">>), AttrBase(<<"pkg">>, <<"Custom", "Scene">>),
    AttrBase(<<"Scene">>, <<"Helper">>), OtherBase }

\* the base lists of a probed class declaration: none, one or two bases
BaseLists ==
  {<<>>} \cup {<<b>> : b \in BaseRefs}
         \cup {<<b, c>> : b \in BaseRefs, c \in BaseRefs}

\* a text with the single class declaration "class P(bases)"
OneClassCode(bases) ==
  [none |-> FALSE, text |-> "one class", syntax_ok |-> TRUE,
   classes |-> <<ClassDecl("P", bases, 1)>>]

\* the calls probed: the function and its arguments
ProbeCalls ==
  { [fn |-> "calculate_scene_success_rate", done |-> FALSE,
     successful |-> UnitNames(s),
     scene_names |-> [is_error |-> e, names |-> UnitNames(r)]] :
      s \in 0..MaxUnits, r \in 0..MaxUnits, e \in BOOLEAN }
  \cup
  { [fn |-> "extract_scene_class_names", done |-> FALSE, code |-> c] :
      c \in {OneClassCode(b) : b \in BaseLists} \cup {BrokenCode, EmptyCode} }
  \cup
  { [fn |-> "extract_frames_from_video", done |-> FALSE, video |-> v,
     mode |-> m, frame_count |-> k, max_frames |-> default_max_frames] :
      v \in Videos, m \in {"fixed_count", "unknown"}, k \in 1..MaxCount }
  \cup
  { [fn |-> "extract_frames_from_video", done |-> FALSE, video |-> v,
     mode |-> "highest_density", frame_count |-> 1, max_frames |-> k] :
      v \in DensityVideos, k \in (1..MaxSamples) \cup {default_max_frames} }
  \cup
  { [fn |-> "_build_usage_info", done |-> FALSE, usage |-> u] :
      u \in UpstreamUsages }

\* every variable but probe
sessionState ==
  << config, pc, error, cycle, current_code, main_working_code,
     working_code, combined_logs, last_frames, successful_scenes,
     previous_reviews, review, cycles_completed, execution_count,
     successful_executions, execution_history, initial_success,
     usage_steps, usage_totals, status_log, executed_codes, messages, call, upstream,
     result, run, spawned, video_py, media_dir_exists, video_files,
     console >>

LibraryInit ==
  /\ config = [review_cycles |-> 0, headless |-> TRUE, streaming |-> FALSE]
  /\ Constructed
  /\ probe \in ProbeCalls

CallSuccessRate ==
  /\ probe.fn = "calculate_scene_success_rate" /\ ~probe.done
  /\ probe' = [fn |-> probe.fn, done |-> TRUE,
               successful |-> probe.successful,
               scene_names |-> probe.scene_names,
               out |-> calculate_scene_success_rate(probe.successful,
                                                    probe.scene_names)]
  /\ UNCHANGED sessionState

CallExtractSceneNames ==
  /\ probe.fn = "extract_scene_class_names" /\ ~probe.done
  /\ probe' = [fn |-> probe.fn, done |-> TRUE, code |-> probe.code,
               out |-> extract_scene_class_names(probe.code)]
  /\ UNCHANGED sessionState

CallExtractFrames ==
  /\ probe.fn = "extract_frames_from_video" /\ ~probe.done
  /\ probe' = [fn |-> probe.fn, done |-> TRUE, video |-> probe.video,
               mode |-> probe.mode, frame_count |-> probe.frame_count,
               max_frames |-> probe.max_frames,
               out |-> extract_frames_from_video(probe.video, probe.mode,
                                                 probe.frame_count,
                                                 probe.max_frames)]
  /\ UNCHANGED sessionState

CallBuildUsageInfo ==
  /\ probe.fn = "_build_usage_info" /\ ~probe.done
  /\ probe' = [fn |-> probe.fn, done |-> TRUE, usage |-> probe.usage,
               out |-> build_usage_info(probe.usage)]
  /\ UNCHANGED sessionState

LibraryNext ==
  \/ CallSuccessRate
  \/ CallExtractSceneNames
  \/ CallExtractFrames
  \/ CallBuildUsageInfo

LibrarySpec == LibraryInit /\ [][LibraryNext]_vars

\* ------------------------------------------------- one execution, alone
\* The initial execution of a run without review cycles, on candidates with
\* up to MaxDecls class declarations at depths up to MaxDepth: the state
\* after generate_initial_code returned such a candidate, and the steps of
\* execute_code, run_manim_multiscene and finalize_output from there.

\* the class declarations D1 .. Dn of a candidate, in source order; a
\* declaration deeper than 1 sits in a class, a function or a block
DeclLists ==
  UNION { [1..n -> {ClassDecl("D", <<b>>, d) :
                      b \in {NameBase(<<"Scene">>), NameBase(<<"Object">>)},
                      d \in 1..MaxDepth}] : n \in 1..MaxDecls }

\* the declarations of a list named D1, D2, ... by their place in the source
Numbered(decls) ==
  [k \in 1..Len(decls) |->
     ClassDecl("D" \o ToString(k), decls[k].bases, decls[k].depth)]

RunnerCandidates ==
  { [none |-> FALSE, text |-> "declarations", syntax_ok |-> TRUE,
     classes |-> Numbered(decls)] : decls \in DeclLists }

RunnerInit ==
  /\ config = [review_cycles |-> 0, headless |-> TRUE, streaming |-> FALSE]
  /\ pc = "execute_initial"
  /\ current_code \in RunnerCandidates
  /\ result = [response |-> FencedResponse(current_code), zero_usage |-> FALSE]
  /\ usage_steps = add_step(<<>>, "Initial Code Generation", 0, result)
  /\ usage_totals = add_totals(ZeroTotals, UsageOf(result))
  /\ status_log = << <<"Initial Code Generation", 0>> >>
  /\ error = ""
  /\ cycle = 0
  /\ main_working_code = None
  /\ working_code = None
  /\ combined_logs = <<>>
  /\ last_frames = <<>>
  /\ successful_scenes = <<>>
  /\ previous_reviews = <<>>
  /\ review = ""
  /\ cycles_completed = 0
  /\ execution_count = 0
  /\ successful_executions = 0
  /\ execution_history = <<>>
  /\ initial_success = FALSE
  /\ executed_codes = <<>>
  /\ messages = NoMessages
  /\ call = IdleCall
  /\ upstream = NoUpstream
  /\ run = IdleRun
  /\ spawned = <<>>
  /\ video_py = None
  /\ media_dir_exists = FALSE
  /\ video_files = {}
  /\ console = NoConsole
  /\ probe = NoProbe

RunnerNext ==
  \/ ExecStart
  \/ RunScene
  \/ SampleFrames
  \/ CleanUpVideos
  \/ ExecuteInitialReturn
  \/ Finalize

RunnerSpec == RunnerInit /\ [][RunnerNext]_vars

\* ------------------------------------------------------------------ media
\* A run with one review cycle on a candidate with two scenes, from the
\* point where main hands the initial candidate to execute_code; the
\* generator answers every call, and the render subprocesses end in any
\* way and leave any kind of file.
MediaInit ==
  /\ config = [review_cycles |-> 1, headless |-> TRUE, streaming |-> FALSE]
  /\ pc = "execute_initial"
  /\ current_code = TwoSceneCode
  /\ result = [response |-> FencedResponse(current_code), zero_usage |-> FALSE]
  /\ usage_steps = add_step(<<>>, "Initial Code Generation", 0, result)
  /\ usage_totals = add_totals(ZeroTotals, UsageOf(result))
  /\ status_log = << <<"Initial Code Generation", 0>> >>
  /\ error = ""
  /\ cycle = 0
  /\ main_working_code = None
  /\ working_code = None
  /\ combined_logs = <<>>
  /\ last_frames = <<>>
  /\ successful_scenes = <<>>
  /\ previous_reviews = <<>>
  /\ review = ""
  /\ cycles_completed = 0
  /\ execution_count = 0
  /\ successful_executions = 0
  /\ execution_history = <<>>
  /\ initial_success = FALSE
  /\ executed_codes = <<>>
  /\ messages = NoMessages
  /\ call = IdleCall
  /\ upstream = NoUpstream
  /\ run = IdleRun
  /\ spawned = <<>>
  /\ video_py = None
  /\ media_dir_exists = FALSE
  /\ video_files = {}
  /\ console = NoConsole
  /\ probe = NoProbe

MediaNext ==
  \/ ExecStart
  \/ RunSceneMedia
  \/ SampleFrames
  \/ CleanUpVideos
  \/ ExecuteInitialReturn
  \/ ReviewStart
  \/ AttemptOk
  \/ ReviewReturn
  \/ ReviseStart
  \/ ReviseReturn
  \/ ExecuteRevisionReturn
  \/ Finalize

MediaSpec == MediaInit /\ [][MediaNext]_vars

\* the same run with videos of one or of several frames
FramesNext ==
  \/ ExecStart
  \/ RunSceneFrames
  \/ SampleFrames
  \/ CleanUpVideos
  \/ ExecuteInitialReturn
  \/ ReviewStart
  \/ AttemptOk
  \/ ReviewReturn
  \/ ReviseStart
  \/ ReviseReturn
  \/ ExecuteRevisionReturn
  \/ Finalize

FramesSpec == MediaInit /\ [][FramesNext]_vars

\* ------------------------------------------------------------------ usage
\* The tracker in a run of the orchestrator, and the tracker used on its
\* own with any usage_info: each of total_tokens, cost and llm_time may be
\* missing from the dict.
UsageAmounts == {1, 2}
UsageInfos ==
  UNION { [keys -> UsageAmounts] :
            keys \in SUBSET {"total_tokens", "cost", "llm_time"} }

TrackerProbe == [fn |-> "add_step"]

UsageInit ==
  /\ config \in Configs
  /\ Constructed
  /\ probe \in {NoProbe, TrackerProbe}

\* tracker.add_step("Step n", model, usage_info) on a tracker of its own
CallAddStep ==
  /\ probe = TrackerProbe
  /\ Len(usage_steps) < MaxCycles
  /\ \E usage_info \in UsageInfos :
       /\ usage_steps' = Append(usage_steps,
                                step_info("Step", Len(usage_steps) + 1, FALSE,
                                          usage_info))
       /\ usage_totals' = add_totals(usage_totals, usage_info)
  /\ UNCHANGED << probe, console, config, pc, error, loopVars, sessionVars,
                  status_log, callVars, runVars >>

\* a run of main, or calls of add_step on a tracker outside of a run
UsageNext ==
  \/ probe = NoProbe /\ Next
  \/ CallAddStep

UsageSpec == UsageInit /\ [][UsageNext]_vars

\* -------------------------------------------------------------- streaming
\* get_streaming_completion_with_retry chunk by chunk, consumed by the loop
\* of get_response_with_status; both live in the probe.

\* what chunk.choices[0].delta can carry: a token of the answer, a token of
\* the reasoning, or neither (None is read as "")
StreamDeltas ==
  { [content |-> "a", reasoning_content |-> ""],
    [content |-> "b", reasoning_content |-> ""],
    [content |-> "", reasoning_content |-> "r"],
    [content |-> "", reasoning_content |-> ""] }

\* StreamChunk(token, response, usage, reasoning_token, reasoning_content),
\* without the usage
StreamChunk(token, response, reasoning_token, reasoning_content) ==
  [token |-> token, response |-> response,
   reasoning_token |-> reasoning_token,
   reasoning_content |-> reasoning_content]

\* mutant: a new attempt goes on from the text of the interrupted one
FreshText_Kept(previous) == previous

\* full_response = "" and full_reasoning = "" after completion() returned
FreshText(previous) == ""

\* the generator before its first attempt, and the consumer's locals
\* full_response = "" and full_reasoning = ""; yielded holds the chunks of
\* the current attempt, interrupted tells whether an attempt was cut off
\* after it had yielded a chunk
StreamProbe ==
  [fn |-> "get_streaming_completion_with_retry", state |-> "calling",
   retries |-> 0, full_response |-> "", full_reasoning |-> "",
   yielded |-> <<>>, interrupted |-> FALSE,
   consumer |-> [full_response |-> "", full_reasoning |-> ""]]

StreamInit ==
  /\ config = [review_cycles |-> 0, headless |-> FALSE, streaming |-> TRUE]
  /\ Constructed
  /\ probe = StreamProbe

\* response = completion(**completion_args) returns a stream
StreamOpen ==
  /\ probe.fn = "get_streaming_completion_with_retry"
  /\ probe.state = "calling"
  /\ probe' = [probe EXCEPT !.state = "streaming",
                            !.full_response = FreshText(@),
                            !.full_reasoning = FreshText(@),
                            !.yielded = <<>>]
  /\ UNCHANGED sessionState

\* one chunk of the stream: accumulate, yield, and the consumer's loop body
StreamDelta ==
  /\ probe.fn = "get_streaming_completion_with_retry"
  /\ probe.state = "streaming"
  /\ Len(probe.yielded) < MaxChunks
  /\ \E delta \in StreamDeltas :
       LET response == probe.full_response \o delta.content
           reasoning == probe.full_reasoning \o delta.reasoning_content
       IN probe' = [probe EXCEPT
            !.full_response = response,
            !.full_reasoning = reasoning,
            !.yielded = Append(@, StreamChunk(delta.content, response,
                                              delta.reasoning_content,
                                              reasoning)),
            !.consumer = [full_response |-> response,
                          full_reasoning |-> reasoning]]
  /\ UNCHANGED sessionState

\* the stream is exhausted: the final chunk with an empty token, and return
StreamFinish ==
  /\ probe.fn = "get_streaming_completion_with_retry"
  /\ probe.state = "streaming"
  /\ probe' = [probe EXCEPT
       !.state = "returned",
       !.yielded = Append(@, StreamChunk("", probe.full_response, "",
                                         probe.full_reasoning)),
       !.consumer = [full_response |-> probe.full_response,
                     full_reasoning |-> probe.full_reasoning]]
  /\ UNCHANGED sessionState

\* RateLimitError from completion() or from the stream: count, sleep, and
\* test the ceiling again
StreamRateLimited ==
  /\ probe.fn = "get_streaming_completion_with_retry"
  /\ probe.state \in {"calling", "streaming"}
  /\ probe' = [probe EXCEPT
       !.retries = @ + 1,
       !.interrupted = @ \/ (probe.state = "streaming" /\ probe.yielded # <<>>),
       !.state = IF RetryLoopContinues(probe.retries + 1)
                 THEN "calling" ELSE "raised"]
  /\ UNCHANGED sessionState

StreamNext ==
  \/ StreamOpen
  \/ StreamDelta
  \/ StreamFinish
  \/ StreamRateLimited

StreamSpec == StreamInit /\ [][StreamNext]_vars

\* ================================================================ claims
Last(seq) == seq[Len(seq)]

IsPrefix(a, b) == Len(a) <= Len(b) /\ SubSeq(b, 1, Len(a)) = a

\* the working candidate the run would report if the loop ended now: inside
\* review_and_update_code it is the loop's working code merged with main's
WorkingCandidate ==
  IF pc \in {"review", "revise", "execute_revision"}
  THEN (IF ~working_code.none /\ working_code.text # ""
        THEN working_code ELSE main_working_code)
  ELSE main_working_code

\* an execution of a revision has just returned and reported failure
FailedCycleStep ==
  /\ Len(execution_history') = Len(execution_history) + 1
  /\ Last(execution_history').step = "Revision"
  /\ ~Last(execution_history').success

\* C1: a review cycle whose execution reports overall success = false leaves
\* the working candidate as it was before the cycle; in particular a
\* candidate that became working earlier is neither reset to null nor
\* replaced by a failed or partially failed cycle.
C1_UpdateLaw ==
  [][FailedCycleStep => WorkingCandidate' = WorkingCandidate]_vars

\* C1 witness: cycle 1 made its revision the working candidate, cycle 2 then
\* failed partially (one of two units rendered) and the candidate is kept
C1_Witness ==
  /\ pc = "done" /\ cycles_completed = 2
  /\ ~execution_history[1].success
  /\ execution_history[2].success
  /\ ~execution_history[3].success
  /\ Len(successful_scenes) = 1
  /\ main_working_code = TwoSceneCode

\* indices of the executions that reported overall success
SuccessfulExecutions ==
  {k \in 1..Len(execution_history) : execution_history[k].success}

SetMax(S) == CHOOSE m \in S : \A x \in S : x <= m

\* the most recent candidate whose execution reported overall success
MostRecentSuccessful ==
  IF SuccessfulExecutions = {} THEN None
  ELSE executed_codes[SetMax(SuccessfulExecutions)]

\* C2: at DONE the reported working candidate is the most recent candidate
\* whose execution reported overall success, whatever its text, and it is
\* null exactly when no execution reported overall success.
C2_MostRecentSuccess ==
  pc = "done" =>
    /\ main_working_code = MostRecentSuccessful
    /\ (main_working_code.none <=> SuccessfulExecutions = {})

\* number of entries of a status log that announce the given phase
RECURSIVE CountPhase(_, _)
CountPhase(log, phase) ==
  IF log = <<>> THEN 0
  ELSE (IF Head(log)[1] = phase THEN 1 ELSE 0) + CountPhase(Tail(log), phase)

\* C3: a run that reaches DONE has performed exactly review_cycles review
\* cycles and review_cycles + 1 executions, whether or not an execution
\* already succeeded, and cycles_completed equals review_cycles.
C3_NoEarlyExit ==
  pc = "done" =>
    /\ cycles_completed = config.review_cycles
    /\ execution_count = config.review_cycles + 1
    /\ Len(execution_history) = config.review_cycles + 1
    /\ Len(executed_codes) = config.review_cycles + 1
    /\ CountPhase(status_log, "Running Manim Script") = config.review_cycles + 1
    /\ CountPhase(status_log, "Review Cycle") = config.review_cycles
    /\ Len(previous_reviews) = config.review_cycles

\* C3 witness: the initial execution already succeeded and both configured
\* cycles were still run
C3_Witness ==
  /\ pc = "done" /\ config.review_cycles = 2
  /\ execution_history[1].success
  /\ cycles_completed = 2 /\ execution_count = 3

\* the phases of cycles k..n in the order the state machine prescribes
RECURSIVE CyclePhases(_, _)
CyclePhases(k, n) ==
  IF k > n THEN <<>>
  ELSE << <<"Review Cycle", k>>,
          <<IF config.headless THEN "Code Revision"
            ELSE "Generating Code Revision", k>>,
          <<"Running Manim Script", k>> >> \o CyclePhases(k + 1, n)

\* the phases of a whole run, in order
ExpectedPhases ==
  << <<"Initial Code Generation", 0>>, <<"Running Manim Script", 0>> >>
    \o CyclePhases(1, config.review_cycles)
    \o (IF config.headless THEN << <<"Finalization", 0>> >> ELSE <<>>)

\* the critiques review call n can return
CritiquesOf(n) == {r.text : r \in ReviewResponses(n)} \cup {SentinelText}

\* C4: the steps occur in the order generation, execution, then review(i),
\* revision(i), execution(i) for i = 1..N, then DONE; review(i+1) starts
\* only after execution(i) returned; revision(i) is built from the critique
\* of review(i); execution(i) runs the candidate of revision(i).
C4_StepOrder ==
  /\ IsPrefix(status_log, ExpectedPhases)
  /\ (pc = "done" => status_log = ExpectedPhases)
  /\ (pc = "review" /\ call.state # "idle" =>
        /\ run.phase = "idle"
        /\ Len(execution_history) = cycle + 1
        /\ Last(execution_history).n = cycle
        /\ messages.replacements.video_code = Last(executed_codes)
        /\ Len(previous_reviews) = cycle)
  /\ (pc = "revise" /\ call.state # "idle" =>
        /\ Len(previous_reviews) = cycle + 1
        /\ messages.review = previous_reviews[cycle + 1]
        /\ messages.review \in CritiquesOf(cycle + 1)
        /\ Last(usage_steps).step = "Review Cycle"
        /\ Last(usage_steps).n = cycle + 1)
  /\ (pc = "execute_revision" /\ run.phase # "idle" =>
        /\ Last(usage_steps).step = "Code Revision"
        /\ Last(usage_steps).n = cycle + 1
        /\ run.code = parse_code_block(result.response)
        /\ video_py = run.code
        /\ Len(executed_codes) = cycle + 2)

\* C4 witness: the execution of revision 2 is under way
C4_Witness ==
  /\ pc = "execute_revision" /\ cycle = 1 /\ run.phase = "scenes"
  /\ run.idx = 2

MaxRetriesExceeded == "Max retries exceeded."

C6_ParseFailure ==
  /\ (run.phase = "scenes" => run.code.syntax_ok)
  /\ (run.phase = "returning" /\ ~run.code.syntax_ok =>
        /\ ~run.rendering_success
        /\ run.frames = <<>>
        /\ run.successful_scenes = <<>>
        /\ run.combined_logs = ParseErrorLog
        /\ spawned = <<>>)
  /\ (pc = "review" /\ call.state = "active" /\ ~current_code.syntax_ok =>
        /\ messages.replacements.video_code = current_code
        /\ messages.replacements.execution_logs = ParseErrorLog
        /\ messages.frames = <<>>
        /\ ~Last(execution_history).success)
  /\ (pc \in {"finalize", "done"} /\ ~current_code.syntax_ok =>
        cycles_completed = config.review_cycles)

\* C6 witness: revision 1 could not be scanned and review 2 is under way
C6_Witness ==
  /\ pc = "review" /\ call.state = "active" /\ cycle = 1
  /\ ~current_code.syntax_ok
  /\ messages.replacements.execution_logs = ParseErrorLog

\* every subprocess of the execution exited with status 0 before the deadline
AllUnitsClean ==
  \A k \in 1..Len(spawned) :
    spawned[k].returncode = 0 /\ ~spawned[k].timed_out

\* C7: overall success is true exactly when the scan succeeded, every unit
\* exited with status 0 without timing out, and the rendered-output location
\* exists after the run.
C7_SuccessNeedsMedia ==
  run.phase = "returning" =>
    (run.rendering_success <=>
       (run.code.syntax_ok /\ AllUnitsClean /\ media_dir_exists))

\* names of the spawned units that exited with status 0 before the deadline
RECURSIVE CleanUnits(_)
CleanUnits(sp) ==
  IF sp = <<>> THEN <<>>
  ELSE (IF Head(sp).returncode = 0 /\ ~Head(sp).timed_out
        THEN <<Head(sp).scene>> ELSE <<>>) \o CleanUnits(Tail(sp))

\* a is b with some elements left out
RECURSIVE IsSubsequence(_, _)
IsSubsequence(a, b) ==
  IF a = <<>> THEN TRUE
  ELSE IF b = <<>> THEN FALSE
  ELSE IF Head(a) = Head(b) THEN IsSubsequence(Tail(a), Tail(b))
  ELSE IsSubsequence(a, Tail(b))

SegmentThenNote(logs, u) ==
  \E j \in 1..(Len(logs) - 1) :
    /\ logs[j] = LogSegment(u.scene, u.stdout, u.stderr)
    /\ logs[j + 1] = TimeoutNote(u.scene)

\* C9: a unit that exceeds its deadline is killed, its output is still in
\* its log segment, the timeout note follows that segment, the unit is not
\* in the successful list whatever its exit status, overall success is
\* false, and the remaining units are still run.
C9_UnitTimeout ==
  /\ (run.phase \in {"scenes", "returning"} =>
        \A k \in 1..Len(spawned) :
          spawned[k].timed_out =>
            /\ spawned[k].killed
            /\ SegmentThenNote(run.combined_logs, spawned[k])
            /\ spawned[k].scene \notin Range(run.successful_scenes)
            /\ ~run.rendering_success)
  /\ (run.phase = "returning" /\ run.code.syntax_ok =>
        [k \in 1..Len(spawned) |-> spawned[k].scene]
          = SceneNamesOf(WalkOrder(run.code.classes)))

\* C9 witness: the first unit timed out although its exit status reads 0,
\* and the second unit was still run and rendered
C9_Witness ==
  /\ run.phase = "returning" /\ Len(spawned) = 2
  /\ spawned[1].timed_out /\ spawned[1].returncode = 0
  /\ ~spawned[2].timed_out /\ spawned[2].returncode = 0
  /\ run.successful_scenes = <<"B">>

\* C10: a generator call makes at most max_retries upstream attempts; the
\* fifth consecutive throttling signal makes it raise instead of attempting
\* again, and a success after fewer throttling signals is returned.
C10_RetryCeiling ==
  /\ call.attempts <= max_retries
  /\ (call.state # "idle" =>
        call.fn \in {"get_completion_with_retry",
                     "get_streaming_completion_with_retry"})
  /\ (call.state = "active" =>
        call.retries < max_retries /\ call.attempts = call.retries)
  /\ (call.retries >= max_retries =>
        /\ call.state = "raised" /\ error = MaxRetriesExceeded
        /\ call.attempts = max_retries)
  /\ (error = MaxRetriesExceeded =>
        call.retries = max_retries /\ upstream.signal = "rate_limit")
  /\ (call.state = "returned" /\ upstream.signal = "ok" =>
        /\ result.response = upstream.response
        /\ ~result.zero_usage
        /\ call.retries < max_retries
        /\ call.attempts = call.retries + 1)

\* C10 witness: the streaming call raised after its fifth throttling signal
C10_Witness ==
  /\ error = MaxRetriesExceeded
  /\ call.fn = "get_streaming_completion_with_retry"
  /\ call.attempts = 5 /\ call.retries = 5

\* min(2 * k, 30)
Backoff(k) == IF 2 * k < 30 THEN 2 * k ELSE 30

\* C11 as stated: a sleep is taken only when a retry follows it, so a call
\* that ends at the ceiling has slept 2, 4, 6, 8 seconds and nothing more.
C11_SleepOnlyBeforeRetry ==
  error = MaxRetriesExceeded => call.sleeps = <<2, 4, 6, 8>>

\* C11 amended: after the k-th throttling signal of a call the client sleeps
\* min(2 * k, 30) seconds, also after the fifth signal, where the sleep of
\* 10 seconds is followed by the raise and not by a retry; a call that ends
\* at the ceiling has slept 2, 4, 6, 8, 10 seconds; no sleep exceeds 30.
C11_BackoffSchedule ==
  /\ Len(call.sleeps) = call.retries
  /\ \A k \in 1..Len(call.sleeps) :
       call.sleeps[k] = Backoff(k) /\ call.sleeps[k] <= 30
  /\ (call.state = "active" => call.attempts = Len(call.sleeps))
  /\ (error = MaxRetriesExceeded => call.sleeps = <<2, 4, 6, 8, 10>>)

\* C11 witness: a call ended at the ceiling after its fifth sleep
C11_Witness ==
  /\ error = MaxRetriesExceeded /\ call.state = "raised"
  /\ Len(call.sleeps) = 5 /\ call.sleeps[5] = 10

SentinelResult == [response |-> BareResponse(SentinelText), zero_usage |-> TRUE]

\* C12 as stated: on every call path an error that is not a throttling
\* signal makes the call return the sentinel text with a zeroed usage
\* record, and the run is not aborted.
C12_AllPathsSentinel ==
  upstream.signal = "error" =>
    /\ call.state = "returned"
    /\ result = SentinelResult
    /\ pc # "aborted"

\* C12, what the two call paths do: an error that is not a throttling
\* signal is never retried; on the non-streaming path the call returns the
\* sentinel text with a zeroed usage record, also after earlier throttling
\* retries, and the orchestrator goes on; on the streaming path the error
\* leaves the generator as an exception and the run ends there.
C12_OtherFailure ==
  /\ (upstream.signal = "error" =>
        call.attempts = call.retries + 1 /\ call.state # "active")
  /\ (upstream.signal = "error" /\ call.fn = "get_completion_with_retry" =>
        /\ call.state = "returned"
        /\ result = SentinelResult
        /\ pc \in CallSites /\ error = ""
        /\ ENABLED Next)
  /\ (upstream.signal = "error"
      /\ call.fn = "get_streaming_completion_with_retry" =>
        /\ call.state = "raised"
        /\ pc = "aborted" /\ error = "upstream error"
        /\ ~ENABLED Next)
  /\ \A k \in 1..Len(usage_steps) :
       usage_steps[k].zero_usage =>
         /\ CallFunction = "get_completion_with_retry"
         /\ (usage_steps[k].step = "Review Cycle" =>
               previous_reviews[usage_steps[k].n] = SentinelText)

\* C12, non-streaming path reached: the blocking revision call of cycle 1 failed after two
\* throttling retries and returned the sentinel
C12_Witness ==
  /\ pc = "revise" /\ call.state = "returned"
  /\ upstream.signal = "error" /\ call.retries = 2
  /\ result = SentinelResult

\* the fraction rate equals the fraction a / b
RateEquals(rate, a, b) == rate.num * b = a * rate.den

StandardKeys == {"previous_reviews", "video_code", "execution_logs"}
EnhancedKeys ==
  StandardKeys \cup {"success_rate", "scenes_rendered", "total_scenes"}

\* C14: in every review step the enhanced framing is selected exactly when
\* the success rate of the most recent execution is >= the threshold, a rate
\* equal to the threshold included; the enhanced prompt is given the rate
\* and the rendered and total counts, the standard prompt is not.
C14_CritiqueGate ==
  pc = "review" /\ call.state # "idle" =>
    LET scan == extract_scene_class_names(Last(executed_codes))
        total == IF scan.is_error THEN 0 ELSE Len(scan.names)
        rendered == Len(successful_scenes)
        reached == total > 0 /\ 100 * rendered >= success_threshold * total
        enhanced == messages.prompt_name = "review_prompt_enhanced"
    IN /\ messages.prompt_name \in {"review_prompt", "review_prompt_enhanced"}
       /\ (enhanced <=> reached)
       /\ (enhanced <=> Last(execution_history).success /\ total > 0)
       /\ (enhanced =>
             /\ DOMAIN messages.replacements = EnhancedKeys
             /\ RateEquals(messages.replacements.success_rate,
                           100 * rendered, total)
             /\ messages.replacements.scenes_rendered = rendered
             /\ messages.replacements.total_scenes = total)
       /\ (~enhanced => DOMAIN messages.replacements = StandardKeys)

\* C14 witness: review 2 follows an execution whose rate equals the
\* threshold and uses the enhanced framing, after review 1 used the standard
\* framing for a half rendered candidate
C14_Witness ==
  /\ pc = "review" /\ call.state = "active" /\ cycle = 1
  /\ messages.prompt_name = "review_prompt_enhanced"
  /\ Len(successful_scenes) = 2
  /\ ~execution_history[1].success
  /\ RateEquals(messages.replacements.success_rate, success_threshold, 1)

\* an execution has just returned to the orchestrator
ExecutionReturns == Len(execution_history') = Len(execution_history) + 1

\* the values the orchestrator holds of the latest execution
LatestExecution == << combined_logs, last_frames, successful_scenes >>

ReviewTag(k) == "review_" \o ToString(k - 1)

TerminalIsScene(base) ==
  /\ base.kind \in {"Name", "Attribute"}
  /\ base.ident # <<>>
  /\ Last(base.ident) = "Scene"

\* C17: extract_scene_class_names lists a class declaration exactly when at
\* least one of its bases has a terminal identifier ending with "Scene":
\* Scene matches, pkg.CustomScene matches, SceneHelper does not, and a
\* declaration with several matching bases is listed once.
C17_UnitDiscovery ==
  probe.fn = "extract_scene_class_names" /\ probe.done =>
    /\ (probe.out.is_error <=> ~probe.code.syntax_ok)
    /\ (probe.code.syntax_ok /\ probe.code.classes = <<>> =>
          probe.out.names = <<>>)
    /\ (probe.code.syntax_ok /\ probe.code.classes # <<>> =>
          LET cls == probe.code.classes[1]
              matching == {k \in 1..Len(cls.bases) : TerminalIsScene(cls.bases[k])}
          IN /\ (matching # {} => probe.out.names = <<cls.name>>)
             /\ (matching = {} => probe.out.names = <<>>)
             /\ (cls.bases = <<NameBase(<<"Scene">>)>> =>
                   probe.out.names = <<cls.name>>)
             /\ (cls.bases = <<AttrBase(<<"pkg">>, <<"Custom", "Scene">>)>> =>
                   probe.out.names = <<cls.name>>)
             /\ (cls.bases = <<NameBase(<<"Scene", "Helper">>)>> =>
                   probe.out.names = <<>>))

\* C17 witness: a declaration with two matching bases was scanned
C17_Witness ==
  /\ probe.fn = "extract_scene_class_names" /\ probe.done
  /\ probe.code.classes # <<>>
  /\ probe.code.classes[1].bases
       = <<NameBase(<<"Scene">>), AttrBase(<<"pkg">>, <<"Custom", "Scene">>)>>
  /\ probe.out.names = <<"P">>

\* the units the latest execution spawned, in the order it spawned them
SpawnOrder == [k \in 1..Len(spawned) |-> spawned[k].scene]

\* place of the declaration of a unit in the source text of a candidate
SourceIndex(code, name) ==
  CHOOSE k \in 1..Len(code.classes) : code.classes[k].name = name

\* depth of the declaration of a unit in the syntax tree of a candidate
DepthOf(code, name) == code.classes[SourceIndex(code, name)].depth

\* the unit declarations of a candidate in the order of its source text
RECURSIVE UnitsInSourceOrder(_)
UnitsInSourceOrder(classes) ==
  IF classes = <<>> THEN <<>>
  ELSE (IF \E k \in 1..Len(Head(classes).bases) :
             TerminalIsScene(Head(classes).bases[k])
        THEN <<Head(classes).name>> ELSE <<>>)
       \o UnitsInSourceOrder(Tail(classes))

RECURSIVE SegmentsOf(_)
SegmentsOf(logs) ==
  IF logs = <<>> THEN <<>>
  ELSE (IF Head(logs).type = "segment" THEN <<Head(logs)>> ELSE <<>>)
       \o SegmentsOf(Tail(logs))

\* number of subprocesses spawned for a unit
SpawnCount(name) == Cardinality({k \in 1..Len(spawned) : spawned[k].scene = name})

\* C19: for every candidate whose scan succeeds exactly one subprocess is
\* spawned per discovered unit, also after an earlier unit failed or timed
\* out, and the aggregated log holds exactly one named segment per
\* discovered unit, in the order the units were run.
C19_EveryUnitRuns ==
  /\ (run.phase = "scenes" =>
        /\ SpawnOrder = SubSeq(run.scene_names.names, 1, run.idx - 1)
        /\ (run.idx <= Len(run.scene_names.names) => ENABLED RunScene))
  /\ (run.phase = "returning" /\ run.code.syntax_ok =>
        /\ SpawnOrder = run.scene_names.names
        /\ Range(SpawnOrder) = Range(UnitsInSourceOrder(run.code.classes))
        /\ \A u \in Range(SpawnOrder) : SpawnCount(u) = 1
        /\ LET segments == SegmentsOf(run.combined_logs) IN
           /\ Len(segments) = Len(spawned)
           /\ \A k \in 1..Len(segments) :
                segments[k] = LogSegment(spawned[k].scene, spawned[k].stdout,
                                         spawned[k].stderr)
        /\ \A k \in 1..Len(run.combined_logs) :
             run.combined_logs[k].type \in {"segment", "timeout"})

\* C19 witness: the first unit timed out, the second failed, and the third
\* was still run and has its segment
C19_Witness ==
  /\ run.phase = "returning" /\ Len(spawned) = 3
  /\ spawned[1].timed_out
  /\ ~spawned[2].timed_out /\ spawned[2].returncode = 1
  /\ spawned[3].returncode = 0 /\ ~spawned[3].timed_out
  /\ Len(SegmentsOf(run.combined_logs)) = 3

Min(a, b) == IF a < b THEN a ELSE b

StrictlyIncreasing(seq) ==
  \A i \in 1..(Len(seq) - 1) : seq[i] < seq[i + 1]

\* the differences of neighbouring positions are equal up to truncation
EvenlySpaced(seq) ==
  \A i, j \in 1..(Len(seq) - 1) :
    (seq[i + 1] - seq[i]) - (seq[j + 1] - seq[j]) \in {-1, 0, 1}

\* a fixed_count call on a video that opens and reports L >= 1 frames
FixedCountCall ==
  /\ probe.fn = "extract_frames_from_video" /\ probe.done
  /\ probe.mode = "fixed_count"
  /\ probe.video.opened /\ probe.video.total_frames >= 1

\* C20 as stated: for any media length L >= 1 and request K >= 1 the
\* fixed_count mode returns exactly min(K, L) samples, evenly spaced between
\* 0 and L - 1, pairwise distinct and in strictly increasing order.
C20_ExactlyMinSamples ==
  FixedCountCall =>
    /\ ~probe.out.none
    /\ Len(probe.out.frames)
         = Min(probe.frame_count, probe.video.total_frames)
    /\ StrictlyIncreasing(probe.out.frames)

\* C20 amended: the fixed_count mode reads min(K, L) positions, evenly
\* spaced from 0 to L - 1, pairwise distinct and strictly increasing, and
\* returns the frames of the positions whose read succeeds, in that order:
\* exactly min(K, L) samples when every read succeeds, fewer when a read
\* fails, and no result at all when every read fails.
C20_FixedCount ==
  FixedCountCall =>
    LET L == probe.video.total_frames
        n == Min(probe.frame_count, L)
        positions == linspace(L, n)
        read == {k \in 1..n : positions[k] \in probe.video.readable}
    IN /\ Len(positions) = n
       /\ positions[1] = 0
       /\ (n > 1 => positions[n] = L - 1)
       /\ StrictlyIncreasing(positions)
       /\ EvenlySpaced(positions)
       /\ (read = {} <=> probe.out.none)
       /\ Len(probe.out.frames) = Cardinality(read)
       /\ Range(probe.out.frames) = {positions[k] : k \in read}
       /\ StrictlyIncreasing(probe.out.frames)
       /\ (read = 1..n => probe.out.frames = positions)

\* C20 witness: three samples were asked of a video of five frames, all of
\* which could be read
C20_Witness ==
  /\ FixedCountCall
  /\ probe.video.total_frames = 5 /\ probe.frame_count = 3
  /\ probe.video.readable = 0..4
  /\ probe.out.frames = <<0, 2, 4>>

\* a highest_density call on a video that opens and reports L >= 1 frames
HighestDensityCall ==
  /\ probe.fn = "extract_frames_from_video" /\ probe.done
  /\ probe.mode = "highest_density"
  /\ probe.video.opened /\ probe.video.total_frames >= 1

\* the positions a highest_density call samples, and those that decode
SampledPositions ==
  Range(linspace(probe.video.total_frames,
                 Min(probe.max_frames, probe.video.total_frames)))
DecodedPositions == SampledPositions \cap probe.video.readable

\* C21: the highest_density mode returns at most one sample; it returns none
\* only when every sampled position failed to decode, and exactly one
\* whenever a sampled position decodes, whatever its foreground ratio, a
\* ratio of zero included.
C21_OneSampleIfDecoded ==
  HighestDensityCall =>
    /\ Len(probe.out.frames) <= 1
    /\ (probe.out.none <=> DecodedPositions = {})
    /\ (DecodedPositions # {} => Len(probe.out.frames) = 1)

\* C21, what the code does: at most one sample is returned, and none is
\* returned exactly when no sampled position decodes to a frame with a
\* foreground ratio above zero.
C21_OneSampleIfBright ==
  HighestDensityCall =>
    /\ Len(probe.out.frames) <= 1
    /\ (probe.out.none <=> probe.out.frames = <<>>)
    /\ (probe.out.none <=>
          \A p \in DecodedPositions : probe.video.density[p] = 0)

\* C21, the failing call: every frame of a video of two frames decodes and
\* none has a bright pixel, and no sample is returned
C21_DarkVideo ==
  /\ HighestDensityCall /\ probe.video.total_frames = 2
  /\ DecodedPositions = {0, 1}
  /\ probe.out.none

\* C30: the highest_density mode samples min(max_frames, L) evenly spaced
\* positions (min(30, L) by default); a returned sample is a decoded sampled
\* position whose foreground ratio is the maximum over the decoded sampled
\* positions, and the earliest of the positions with that ratio: a later
\* position with an equal ratio never replaces it.
C30_EarliestDensest ==
  HighestDensityCall =>
    LET L == probe.video.total_frames
        n == Min(probe.max_frames, L)
        positions == linspace(L, n)
    IN /\ Len(positions) = n
       /\ StrictlyIncreasing(positions)
       /\ EvenlySpaced(positions)
       /\ (probe.max_frames = default_max_frames =>
             n = Min(30, L) /\ SampledPositions = 0..(L - 1))
       /\ (~probe.out.none =>
             /\ Len(probe.out.frames) = 1
             /\ LET p == probe.out.frames[1] IN
                  /\ p \in DecodedPositions
                  /\ \A q \in DecodedPositions :
                       /\ probe.video.density[q] <= probe.video.density[p]
                       /\ (probe.video.density[q] = probe.video.density[p]
                             => p <= q))

\* C30, its case: two decoded sampled positions share the greatest ratio, a
\* position in between was sampled and could not be decoded, and the earlier
\* of the two is returned
C30_Witness ==
  /\ HighestDensityCall /\ ~probe.out.none
  /\ probe.video.total_frames = 5 /\ probe.max_frames = 3
  /\ SampledPositions = {0, 2, 4}
  /\ DecodedPositions = {0, 4}
  /\ probe.video.density[0] = 1 /\ probe.video.density[4] = 1
  /\ probe.out.frames = <<0>>

\* the scenes of a list of frames, in order
FrameScenes(frames) == [k \in 1..Len(frames) |-> frames[k].scene]

\* <scene>.mp4 exists and opens, decodes and encodes
HasGoodVideo(scene) ==
  \E f \in video_files : f.scene = scene /\ f.state = "good"

DeletedVideos ==
  {f \in video_files : \A g \in video_files' : g.scene # f.scene}

\* C23: when run_manim_multiscene returns, no video of a unit in the
\* execution's list of successful units remains, and a video is deleted only
\* after the sampling has finished: the frames are fixed by then and hold
\* the sample of every deleted video that could be sampled.
C23_CleanupAfterSampling ==
  /\ [](run.phase = "returning" =>
          \A f \in video_files : f.scene \notin Range(run.successful_scenes))
  /\ [][DeletedVideos # {} =>
          /\ run.phase = "cleanup"
          /\ run'.frames = run.frames
          /\ DeletedVideos
               = {f \in video_files : f.scene \in Range(run.successful_scenes)}
          /\ \A f \in DeletedVideos :
               f.state = "good" =>
                 \E fr \in Range(run.frames) :
                   fr.scene = f.scene /\ fr.by = f.by]_vars

\* C23, its case: an execution returns with the frame of its successful
\* unit, whose video is gone, while the video that the failed unit wrote
\* is still there
C23_Witness ==
  /\ run.phase = "returning"
  /\ run.successful_scenes = <<"A">>
  /\ FrameScenes(run.frames) = <<"A">>
  /\ \E f \in video_files : f.scene = "B"
  /\ \A f \in video_files : f.scene # "A"

\* C24: every frame an execution returns is decoded from a video written by
\* a subprocess of that same execution, never from a file that an earlier
\* execution left behind.
C24_NoStaleFrames ==
  /\ (run.phase \in {"cleanup", "returning"} =>
        \A k \in 1..Len(run.frames) : run.frames[k].by = execution_count + 1)
  /\ \A k \in 1..Len(last_frames) : last_frames[k].by = execution_count

\* C24, what the code ensures: a frame of an execution comes from a video
\* written by that execution or by an earlier one, for a unit that this
\* execution counts as successful
C24_FramesOfSuccessfulUnits ==
  run.phase \in {"cleanup", "returning"} =>
    \A k \in 1..Len(run.frames) :
      /\ run.frames[k].by <= execution_count + 1
      /\ run.frames[k].scene \in Range(run.successful_scenes)

\* C24, the failing run: the second execution returns a frame of unit A
\* that was decoded from the video the first execution wrote
C24_StaleFrame ==
  /\ run.phase = "returning" /\ execution_count = 1
  /\ run.frames # <<>>
  /\ run.frames[1].scene = "A" /\ run.frames[1].by = 1

\* the numbers of the "Review Cycle" announcements, in the order made
RECURSIVE CycleStarts(_)
CycleStarts(log) ==
  IF log = <<>> THEN <<>>
  ELSE (IF Head(log)[1] = "Review Cycle" THEN <<Head(log)[2]>> ELSE <<>>)
       \o CycleStarts(Tail(log))

\* C25: control flow is fully sequential. A generator call is in flight only
\* while no execution is under way, and an execution only while no call is;
\* the units of an execution are spawned one after another, each one having
\* exited, or been killed at its timeout, before the next is spawned or
\* anything else happens; and a review cycle starts only when every earlier
\* cycle has completed and its execution has returned.
C25_Sequential ==
  /\ (call.state # "idle" => run.phase = "idle" /\ pc \in CallSites \cup {"aborted"})
  /\ (run.phase # "idle" =>
        call.state = "idle" /\ pc \in {"execute_initial", "execute_revision"})
  /\ \A k \in 1..Len(spawned) : spawned[k].timed_out => spawned[k].killed
  /\ (run.phase = "scenes" =>
        /\ Len(spawned) = run.idx - 1
        /\ \A k \in 1..Len(spawned) :
             spawned[k].scene = run.scene_names.names[k])
  /\ (pc \in {"review", "revise", "execute_revision"} =>
        /\ execution_count = cycle + 1
        /\ cycles_completed = cycle)
  /\ CycleStarts(status_log) = [k \in 1..Len(CycleStarts(status_log)) |-> k]

\* C25, its case: in the second review cycle the first unit of the revision
\* ran into the timeout and was killed, and the second unit is next
C25_Witness ==
  /\ pc = "execute_revision" /\ cycle = 1
  /\ run.phase = "scenes" /\ run.idx = 2
  /\ Len(spawned) = 1 /\ spawned[1].timed_out /\ spawned[1].killed
  /\ call.state = "idle"
  /\ CycleStarts(status_log) = <<1, 2>>

\* the run ended at DONE without a working candidate
DoneWithoutWorking == pc = "done" /\ ~Truthy(main_working_code)

\* C26: failure is never silent. Whenever a run reaches DONE with no working
\* candidate, in interactive and in headless mode alike, what the user sees
\* says that the result is not executable and shows the full final log, and
\* it never looks like a success.
C26_FailureReported ==
  DoneWithoutWorking =>
    /\ console.not_executable
    /\ console.errors_panel = [shown |-> TRUE, logs |-> combined_logs]
    /\ ~console.complete /\ ~console.saved_to /\ ~console.code_saved

\* C26, what the code does: without a working candidate a headless run
\* prints only "Workflow complete" and "Output saved to", and an interactive
\* run prints the not-executable result with the final log exactly when the
\* user asked to view it, and its summary marks the final working code as
\* missing when there is none.
C26_FailureOnRequest ==
  DoneWithoutWorking =>
    /\ (config.headless =>
          /\ console.complete /\ console.saved_to
          /\ ~console.not_executable /\ console.errors_panel = NoPanel)
    /\ (~config.headless =>
          /\ ~console.complete /\ ~console.saved_to
          /\ console.final_working
               = (IF main_working_code.none THEN "no" ELSE "yes")
          /\ (console.not_executable <=> console.errors_panel.shown)
          /\ (console.errors_panel.shown =>
                console.errors_panel.logs = combined_logs))
    /\ ~console.code_saved

\* C26, the failing run: a headless run in which the initial execution and
\* the revision failed ends with "Workflow complete" and "Output saved to",
\* and the log of the failure is not shown
C26_SilentFailure ==
  /\ DoneWithoutWorking /\ config.headless
  /\ main_working_code.none
  /\ execution_count = 2 /\ successful_executions = 0
  /\ combined_logs # <<>>
  /\ console.complete /\ console.saved_to
  /\ console.errors_panel = NoPanel

\* the sum of a field over the recorded steps, a missing field counting as 0
RECURSIVE SumOver(_, _)
SumOver(steps, key) ==
  IF steps = <<>> THEN 0
  ELSE Get(Head(steps).usage, key, 0) + SumOver(Tail(steps), key)

\* the step that call number k of a run records
ExpectedStep(k) ==
  IF k = 1 THEN <<"Initial Code Generation", 0>>
  ELSE IF k % 2 = 0 THEN <<"Review Cycle", k \div 2>>
  ELSE <<"Code Revision", k \div 2>>

\* C27: usage accounting is append-only. A step of the tracker is never
\* removed or changed, and one step is added at a time; in a run, a step is
\* added exactly when a generator call has returned, so that a run of N
\* cycles that reaches the end holds 1 + 2N steps in the order of the calls;
\* and after any sequence of add_step calls the three totals are the sums of
\* total_tokens, cost and llm_time over the recorded steps, a missing field
\* counting as 0.
C27_UsageAccounting ==
  /\ [][/\ IsPrefix(usage_steps, usage_steps')
        /\ Len(usage_steps') <= Len(usage_steps) + 1
        /\ (probe = NoProbe =>
              (Len(usage_steps') = Len(usage_steps) + 1
                 <=> call.state = "returned" /\ call'.state = "idle"))]_vars
  /\ [](pc = "done" =>
          /\ Len(usage_steps) = 1 + 2 * config.review_cycles
          /\ \A k \in 1..Len(usage_steps) :
               <<usage_steps[k].step, usage_steps[k].n>> = ExpectedStep(k))
  /\ [](/\ usage_totals.total_tokens = SumOver(usage_steps, "total_tokens")
        /\ usage_totals.total_cost = SumOver(usage_steps, "cost")
        /\ usage_totals.total_llm_time = SumOver(usage_steps, "llm_time"))

\* C27, its case: a run of two cycles has ended with five steps, one of them
\* the zeroed record of a failed call, and the totals count the other four
C27_Witness ==
  /\ pc = "done" /\ config.review_cycles = 2
  /\ Len(usage_steps) = 5
  /\ usage_steps[4].zero_usage
  /\ \A k \in {1, 2, 3, 5} : ~usage_steps[k].zero_usage
  /\ usage_totals = [total_tokens |-> 28, total_cost |-> 8,
                     total_llm_time |-> 20]

\* the initial candidate declares two units and one of them rendered
InitialOneOfTwo ==
  /\ Len(executed_codes) = 1
  /\ ~extract_scene_class_names(executed_codes[1]).is_error
  /\ Len(extract_scene_class_names(executed_codes[1]).names) = 2
  /\ Len(successful_scenes) = 1

\* the execution of revision 1 returns with both of its two units rendered,
\* after an initial execution that failed
RevisionOneRendersAll ==
  /\ pc = "execute_revision" /\ cycle = 0 /\ run.phase = "returning"
  /\ ~execution_history[1].success
  /\ run.rendering_success /\ Len(run.successful_scenes) = 2

\* C28: when the initial candidate renders 1 of 2 units, review 1 works with
\* the success rate 50, which is below the threshold 100, and uses the
\* standard critique; when revision 1 then renders 2 of 2 units, the working
\* candidate becomes revision 1 and the loop goes on with the next cycle if
\* one is configured; a run that ends has run every configured cycle.
C28_Scenario ==
  /\ [](pc = "review" /\ cycle = 0 /\ call.state # "idle" /\ InitialOneOfTwo =>
          LET rate == calculate_scene_success_rate(successful_scenes,
                        extract_scene_class_names(executed_codes[1]))
          IN /\ RateEquals(rate[1], 50, 1)
             /\ ~RateAtLeast(rate[1], success_threshold)
             /\ messages.prompt_name = "review_prompt"
             /\ DOMAIN messages.replacements = StandardKeys)
  /\ [][RevisionOneRendersAll /\ pc' # pc =>
          /\ working_code' = current_code
          /\ Truthy(working_code')
          /\ cycles_completed' = 1
          /\ IF config.review_cycles > 1
             THEN pc' = "review" /\ cycle' = 1
             ELSE pc' = "finalize" /\ main_working_code' = current_code]_vars
  /\ [](pc = "done" => /\ cycles_completed = config.review_cycles
                       /\ execution_count = 1 + config.review_cycles)

\* C28, its case: with two cycles configured, the initial candidate rendered
\* one of its two units, review 1 and revision 1 were made, and revision 1
\* has just rendered both of its units
C28_Witness ==
  /\ RevisionOneRendersAll /\ config.review_cycles = 2
  /\ Len(extract_scene_class_names(executed_codes[1]).names) = 2
  /\ Len(successful_scenes) = 1
  /\ Len(previous_reviews) = 1
  /\ working_code.none /\ main_working_code.none

\* a call of _build_usage_info that has returned
BuildUsageCall == probe.fn = "_build_usage_info" /\ probe.done

\* the count the upstream reported under a name, if it reported one
Upstream(name) == GetAttr(probe.usage, name)
UpstreamDetail(name) ==
  IF Upstream("completion_tokens_details").none THEN None
  ELSE Upstream("completion_tokens_details")[name]

\* C29: _build_usage_info records a missing or null prompt, completion, total
\* or reasoning count as 0 and a reported one as it is; answer_tokens is the
\* upstream text-token count when one is reported, otherwise
\* completion_tokens - reasoning_tokens floored at 0 when reasoning tokens
\* are reported, otherwise completion_tokens; answer_tokens and
\* reasoning_tokens are never negative.
C29_UsageNormalization ==
  BuildUsageCall =>
    LET out == probe.out
        text == UpstreamDetail("text_tokens")
        reasoning == UpstreamDetail("reasoning_tokens")
    IN /\ \A name \in {"prompt_tokens", "completion_tokens", "total_tokens"} :
            out[name] = (IF Upstream(name).none THEN 0
                         ELSE Upstream(name).value)
       /\ out.reasoning_tokens = (IF reasoning.none THEN 0 ELSE reasoning.value)
       /\ out.answer_tokens =
            (IF ~text.none THEN text.value
             ELSE IF ~reasoning.none
             THEN (IF out.completion_tokens >= reasoning.value
                   THEN out.completion_tokens - reasoning.value ELSE 0)
             ELSE out.completion_tokens)
       /\ out.answer_tokens >= 0 /\ out.reasoning_tokens >= 0

\* C29, its case: the upstream reports more reasoning tokens than completion
\* tokens and no text tokens, and the answer tokens are floored at 0
C29_Witness ==
  /\ BuildUsageCall /\ ~probe.usage.none
  /\ probe.usage.completion_tokens = Reported(1)
  /\ probe.usage.prompt_tokens = None
  /\ ~probe.usage.completion_tokens_details.none
  /\ probe.usage.completion_tokens_details.reasoning_tokens = Reported(2)
  /\ probe.usage.completion_tokens_details.text_tokens = None
  /\ probe.out.answer_tokens = 0 /\ probe.out.reasoning_tokens = 2
  /\ probe.out.prompt_tokens = 0

\* the scenes of the frames with their repetitions removed, in order
RECURSIVE Runs(_)
Runs(scenes) ==
  IF scenes = <<>> THEN <<>>
  ELSE IF Len(scenes) > 1 /\ scenes[1] = scenes[2] THEN Runs(Tail(scenes))
  ELSE <<Head(scenes)>> \o Runs(Tail(scenes))

\* the frames of one scene among the returned frames
FramesFor(scene) == SelectSeq(run.frames, LAMBDA fr : fr.scene = scene)

\* the positions from which a scene's video has frames extracted
ExtractedFor(scene) ==
  LET found == {f \in video_files : f.scene = scene} IN
  IF found = {} THEN <<>>
  ELSE ExtractedPositions((CHOOSE f \in found : TRUE).state)

\* C31: an execution has frames only for its successful units, also when a
\* failed or timed out unit left a video; the frames are in the order of the
\* successful units, those of one unit next to each other and in increasing
\* position; and the frames of a unit carry a number exactly when more than
\* one frame was extracted from its video, the number being the frame's place
\* among the extracted frames.
C31_FramesFollowUnits ==
  run.phase = "cleanup" =>
    /\ \A k \in 1..Len(run.frames) :
         run.frames[k].scene \in Range(run.successful_scenes)
    /\ Runs(FrameScenes(run.frames))
         = SelectSeq(run.successful_scenes,
                     LAMBDA s : FramesFor(s) # <<>>)
    /\ \A k \in 1..(Len(run.frames) - 1) :
         run.frames[k].scene = run.frames[k + 1].scene =>
           run.frames[k].pos < run.frames[k + 1].pos
    /\ \A k \in 1..Len(run.frames) :
         LET fr == run.frames[k]
             extracted == ExtractedFor(fr.scene)
         IN /\ (fr.suffix # 0 <=> Len(extracted) > 1)
            /\ (fr.suffix # 0 => extracted[fr.suffix] = fr.pos)

\* C31, its case: unit A failed after writing a video and has no frame; of
\* the three frames extracted for unit B the second did not encode, and the
\* two others are numbered 1 and 3
C31_Witness ==
  /\ run.phase = "cleanup"
  /\ run.successful_scenes = <<"B">>
  /\ \E f \in video_files : f.scene = "A" /\ f.state = "good_many"
  /\ Len(run.frames) = 2
  /\ run.frames[1].scene = "B" /\ run.frames[1].suffix = 1
  /\ run.frames[2].scene = "B" /\ run.frames[2].suffix = 3

\* the concatenation of a field of the first k chunks
RECURSIVE Joined(_, _, _)
Joined(chunks, field, k) ==
  IF k = 0 THEN "" ELSE Joined(chunks, field, k - 1) \o chunks[k][field]

\* C32: every chunk the streaming generator yields carries as response the
\* concatenation of the tokens yielded so far in the current attempt, and
\* likewise for the reasoning; the stream ends with one more chunk whose
\* token is empty and whose response is the complete text; an attempt that
\* follows a throttling signal starts from the empty text, so that the text
\* get_response_with_status ends up with is that of the completed attempt.
C32_StreamAccumulation ==
  probe.fn = "get_streaming_completion_with_retry" =>
    LET chunks == probe.yielded IN
    /\ (probe.state \in {"streaming", "returned"} =>
          /\ \A k \in 1..Len(chunks) :
               /\ chunks[k].response = Joined(chunks, "token", k)
               /\ chunks[k].reasoning_content
                    = Joined(chunks, "reasoning_token", k)
          /\ probe.full_response = Joined(chunks, "token", Len(chunks)))
    /\ (probe.state = "returned" =>
          /\ chunks # <<>>
          /\ chunks[Len(chunks)].token = ""
          /\ chunks[Len(chunks)].reasoning_token = ""
          /\ chunks[Len(chunks)].response
               = Joined(chunks, "token", Len(chunks) - 1)
          /\ probe.consumer.full_response
               = Joined(chunks, "token", Len(chunks))
          /\ probe.consumer.full_reasoning
               = Joined(chunks, "reasoning_token", Len(chunks)))

\* C32, its case: an attempt was cut off by a throttling signal after it had
\* yielded a chunk, and the attempt that completed yielded "b" and "a"
C32_Witness ==
  /\ probe.fn = "get_streaming_completion_with_retry"
  /\ probe.state = "returned" /\ probe.retries = 1 /\ probe.interrupted
  /\ Len(probe.yielded) = 3
  /\ probe.yielded[1].token = "b" /\ probe.yielded[2].token = "a"
  /\ probe.consumer.full_response = "ba"

\* the candidate scans and declares no scene
ZeroUnit(code) ==
  LET scene_names == extract_scene_class_names(code)
  IN ~ScanFailed(scene_names) /\ scene_names.names = <<>>

\* the latest execution has returned and no later candidate was generated:
\* current_code is the candidate it ran
AfterExecution ==
  pc \in {"review", "revise", "finalize", "done"} /\ execution_history # <<>>

\* the working code as held where the latest execution returned to: main
\* for the initial execution, review_and_update_code for a revision
HeldWorkingCode ==
  IF Len(execution_history) = 1 THEN
    main_working_code
  ELSE working_code

\* the rate computed from the outcome of the latest execution
LatestRate ==
  calculate_scene_success_rate(successful_scenes,
                               extract_scene_class_names(current_code))[1]

IsSentinel(code) == ~code.none /\ code.text = SentinelText

CompletedExecutions ==
  Len(executed_codes) - (IF run.phase = "idle" THEN 0 ELSE 1)

\* C35: in every state of a run, 0 <= successful_executions <=
\* execution_count; execution_count is the length of execution_history and
\* the number of execute_code calls that have returned, the initial one
\* included; successful_executions is the number of history entries with
\* success; cycles_completed never decreases and never exceeds the
\* configured number of review cycles.
C35_SessionCounters ==
  /\ [](/\ 0 <= successful_executions
        /\ successful_executions <= execution_count
        /\ execution_count = Len(execution_history)
        /\ execution_count = CompletedExecutions
        /\ successful_executions = Cardinality(SuccessfulExecutions)
        /\ 0 <= cycles_completed
        /\ cycles_completed <= config.review_cycles)
  /\ [][cycles_completed' >= cycles_completed]_vars

\* C35, its case: two cycles were run; of the three executions the first and
\* the last failed
C35_Witness ==
  /\ pc = "done" /\ config.review_cycles = 2
  /\ cycles_completed = 2
  /\ execution_count = 3 /\ successful_executions = 1
  /\ ~execution_history[1].success
  /\ execution_history[2].success
  /\ ~execution_history[3].success

\* the candidate of the latest call of execute_code
LastExecuted == executed_codes[Len(executed_codes)]

\* C36: every execution overwrites video.py with the candidate it runs; at
\* DONE with a working code that is not None, video.py holds the working
\* code, also when a failed revision was executed last; with no working
\* code video.py holds the last executed candidate.
C36_SavedScriptMatches ==
  /\ (run.phase # "idle" => video_py = run.code /\ video_py = LastExecuted)
  /\ (pc = "done" =>
        IF ~main_working_code.none
        THEN video_py = main_working_code
        ELSE video_py = LastExecuted)

\* C36 as coded: finalize_output rewrites video.py only for a working code
\* that is truthy; for None and for the empty text video.py keeps the last
\* executed candidate.
C36_SavedScriptIfTruthy ==
  /\ (run.phase # "idle" => video_py = run.code /\ video_py = LastExecuted)
  /\ (pc = "done" =>
        IF Truthy(main_working_code)
        THEN video_py = main_working_code
        ELSE video_py = LastExecuted)

\* C36, the case the code gets right: the initial candidate rendered, the
\* revision executed last failed, and video.py holds the initial candidate
C36_WorkingRestored ==
  /\ pc = "done" /\ Len(execution_history) = 2
  /\ execution_history[1].success /\ ~execution_history[2].success
  /\ main_working_code = TwoSceneCode
  /\ LastExecuted = BrokenCode
  /\ video_py = TwoSceneCode

\* C36, the case the code gets wrong: the working code is the empty text of
\* a successful initial execution, and video.py holds the failed revision
C36_EmptyWorkingNotSaved ==
  /\ pc = "done" /\ Len(execution_history) = 2
  /\ execution_history[1].success /\ ~execution_history[2].success
  /\ main_working_code = EmptyCode
  /\ video_py = BrokenCode
====
